---- MODULE Spec2Model ----
(***************************************************************************)
(* A state-machine model of the image dataset manager: the group store     *)
(* (group_manager.py), the tag store (tag_manager.py), the image catalog   *)
(* (data_manager.py), the mass rename of image_processor.py and the folder *)
(* handlers of event_handlers.py.                                          *)
(*                                                                         *)
(* Python strings are modelled as sequences of tokens (one-character       *)
(* strings, or an extension such as ".jpg" that no operation looks into),  *)
(* so that two strings are equal exactly when their sequences are.         *)
(* A Python Optional is modelled as a sequence of length 0 (None) or 1.    *)
(***************************************************************************)
EXTENDS Integers, Sequences, FiniteSets, TLC

VARIABLES
    groups,          \* GroupManager.groups: group_id -> ImageGroup
    image_to_group,  \* GroupManager.image_to_group: filename -> group_id
    next_gid,        \* number of group ids handed out so far (uuid4 is fresh)
    available_tags,  \* TagManager.available_tags: set of tags
    tag_categories,  \* TagManager.tag_categories: category -> list of tags
    image_tags,      \* TagManager.image_tags: filename -> list of tags
    keyword_tag,     \* TagManager.keyword_tag: Optional tag
    images_data,     \* DataManager.images_data: list of image records
    current_folder,  \* DataManager.current_folder: Optional folder path
    tag_project_folder,    \* TagManager.project_folder: Optional folder path
    group_project_folder,  \* GroupManager.project_folder: Optional folder path
    disk,            \* the file system: folder path -> its kind and files
    result,          \* the report the last bulk operation returned
    args,            \* the arguments the last bulk operation was called with
    bulk_calls,      \* the number of bulk operations called so far
    last             \* the name of the last operation called

gvars == <<groups, image_to_group, next_gid>>
tvars == <<available_tags, tag_categories, image_tags, keyword_tag>>
cvars == <<images_data, current_folder>>
pvars == <<tag_project_folder, group_project_folder>>
bvars == <<result, args, bulk_calls>>
vars == <<gvars, tvars, cvars, pvars, disk, bvars, last>>

\* what the operations of one component leave alone
NotGroup == <<tvars, cvars, pvars, disk, bvars>>
NotTag == <<gvars, cvars, pvars, disk, bvars>>
NotCatalog == <<gvars, tvars, pvars, disk, bvars>>

\* ------------------------------------------------------------------ bounds
MaxGroups == 2       \* group ids handed out in one behaviour
MaxFnList == 2       \* length of a filename list given to a group operation
MaxMembers == 3      \* length of a group's member list
MaxTagList == 3      \* length of a tag list given to a tag operation
MaxDescLen == 4      \* tokens of a description that append_keyword_to_all extends
MaxScope == 2        \* images given to one bulk operation
MaxBulkCalls == 1    \* bulk operations in one run
MaxEditList == 2     \* length of a tag list given to a per-image tag edit
MaxRoundTripList == 2  \* length of a tag list sent through the round trip

\* ------------------------------------------------------------- input sets
None == <<>>
Some(x) == <<x>>

FileNames == {<<"a", ".jpg">>, <<"b", ".jpg">>}
GroupNames == {<<"B">>, <<"a">>}
GroupIds == 1..(MaxGroups + 1)

\* tags as the user types them: plain, padded with a space, blank
PlainTags == {<<"a">>, <<" ", "b">>}
ListTags == PlainTags \cup {<<" ">>}
TagArgs == ListTags \cup {<<"b">>}

SeqsUpTo(S, n) == UNION {[1..k -> S] : k \in 0..n}
FnLists == SeqsUpTo(FileNames, MaxFnList)
\* tag lists: every list of plain tags, and the short lists with blank entries
TagLists == SeqsUpTo(PlainTags, MaxTagList) \cup SeqsUpTo(ListTags, 2)
AddTagLists == SeqsUpTo(ListTags, 2)
EditLists == SeqsUpTo(ListTags, MaxEditList)

\* ------------------------------------------------------- python list helpers
Range(s) == {s[i] : i \in DOMAIN s}

\* list.index(x) for x in the list: the first position holding x
IndexOf(s, x) == CHOOSE i \in DOMAIN s : s[i] = x /\ \A j \in 1..(i - 1) : s[j] # x

\* list.remove(x) for x in the list: drops the first occurrence only
ListRemove(s, x) ==
    LET i == IndexOf(s, x)
    IN  SubSeq(s, 1, i - 1) \o SubSeq(s, i + 1, Len(s))

\* del d[k]
DictDel(d, k) == [x \in (DOMAIN d) \ {k} |-> d[x]]

\* d[k] = v
DictSet(d, k, v) == [x \in (DOMAIN d) \cup {k} |-> IF x = k THEN v ELSE d[x]]

\* ------------------------------------------------------------ group store
\* ImageGroup.add_image
ImageGroup_add_image(members, filename) ==
    IF filename \in Range(members) THEN members ELSE Append(members, filename)

\* ImageGroup.remove_image
ImageGroup_remove_image(members, filename) ==
    IF filename \in Range(members) THEN ListRemove(members, filename) ELSE members

\* The store as a value, for the loops that update it filename by filename.
Store(g, m) == [groups |-> g, image_to_group |-> m]

\* GroupManager.remove_image_from_group
remove_image_from_group(st, filename) ==
    IF filename \notin DOMAIN st.image_to_group THEN st
    ELSE LET group_id == st.image_to_group[filename]
         IN  Store(IF group_id \in DOMAIN st.groups
                   THEN [st.groups EXCEPT ![group_id].image_filenames =
                            ImageGroup_remove_image(@, filename)]
                   ELSE st.groups,
                   DictDel(st.image_to_group, filename))

\* the first loop of create_group: detach every filename, in list order
RECURSIVE DetachAll(_, _)
DetachAll(st, fns) ==
    IF fns = <<>> THEN st
    ELSE DetachAll(remove_image_from_group(st, Head(fns)), Tail(fns))

\* the members a new group is created with: image_filenames.copy()
NewGroupMembers(image_filenames) == image_filenames

\* GroupManager.create_group, as a function of the store
CreateGroupSt(st, group_id, name, image_filenames) ==
    LET st1 == DetachAll(st, image_filenames)
        group == [name |-> name,
                  image_filenames |-> NewGroupMembers(image_filenames),
                  expanded |-> TRUE]
    IN  Store(DictSet(st1.groups, group_id, group),
              [x \in (DOMAIN st1.image_to_group) \cup Range(image_filenames) |->
                  IF x \in Range(image_filenames) THEN group_id
                  ELSE st1.image_to_group[x]])

\* the loop of add_images_to_group
RECURSIVE AddAll(_, _, _)
AddAll(st, group_id, fns) ==
    IF fns = <<>> THEN st
    ELSE LET st1 == remove_image_from_group(st, Head(fns))
             st2 == Store([st1.groups EXCEPT ![group_id].image_filenames =
                              ImageGroup_add_image(@, Head(fns))],
                          DictSet(st1.image_to_group, Head(fns), group_id))
         IN  AddAll(st2, group_id, Tail(fns))

\* the loop of remove_images_from_group
RECURSIVE RemoveAll(_, _, _)
RemoveAll(st, group_id, fns) ==
    IF fns = <<>> THEN st
    ELSE LET f == Head(fns)
             st1 == Store([st.groups EXCEPT ![group_id].image_filenames =
                              ImageGroup_remove_image(@, f)],
                          IF f \in DOMAIN st.image_to_group /\ st.image_to_group[f] = group_id
                          THEN DictDel(st.image_to_group, f)
                          ELSE st.image_to_group)
         IN  RemoveAll(st1, group_id, Tail(fns))

\* a delete_group that clears only the entries that map to the group
DeleteGroupOwnEntries(st, group_id) ==
    IF group_id \notin DOMAIN st.groups THEN st
    ELSE Store(DictDel(st.groups, group_id),
               [x \in {y \in DOMAIN st.image_to_group : st.image_to_group[y] # group_id}
                   |-> st.image_to_group[x]])

\* GroupManager.delete_group, as a function of the store
DeleteGroupSt(st, group_id) ==
    IF group_id \notin DOMAIN st.groups THEN st
    ELSE Store(DictDel(st.groups, group_id),
               [x \in (DOMAIN st.image_to_group) \ Range(st.groups[group_id].image_filenames)
                   |-> st.image_to_group[x]])

\* GroupManager.rename_image, as a function of the store
RenameImageSt(st, old_filename, new_filename) ==
    IF old_filename \notin DOMAIN st.image_to_group THEN st
    ELSE LET group_id == st.image_to_group[old_filename]
             members == st.groups[group_id].image_filenames
         IN  Store([st.groups EXCEPT ![group_id].image_filenames =
                       IF old_filename \in Range(members)
                       THEN [members EXCEPT ![IndexOf(members, old_filename)] = new_filename]
                       ELSE members],
                   DictSet(DictDel(st.image_to_group, old_filename), new_filename, group_id))

\* GroupManager.clean_up_empty_groups: delete_group on every empty group
RECURSIVE DeleteGroups(_, _)
DeleteGroups(st, ids) ==
    IF ids = {} THEN st
    ELSE LET g == CHOOSE x \in ids : TRUE
         IN  DeleteGroups(DeleteGroupSt(st, g), ids \ {g})

clean_up_empty_groups(st) ==
    DeleteGroups(st, {g \in DOMAIN st.groups : st.groups[g].image_filenames = <<>>})

\* GroupManager.remove_image, as a function of the store
RemoveImageSt(st, filename) == clean_up_empty_groups(remove_image_from_group(st, filename))

\* a validation that looks at the members of the groups only
ValidateMembersOnly ==
    {<<"mismatch", g, f>> : <<g, f>> \in
        {p \in (DOMAIN groups) \X FileNames :
            /\ p[2] \in Range(groups[p[1]].image_filenames)
            /\ \/ p[2] \notin DOMAIN image_to_group
               \/ image_to_group[p[2]] # p[1]}}

\* GroupManager.validate_consistency: the set of issues it reports
validate_consistency ==
    {<<"dangling", f>> : f \in {x \in DOMAIN image_to_group :
                                   image_to_group[x] \notin DOMAIN groups}}
    \cup
    {<<"mismatch", g, f>> : <<g, f>> \in
        {p \in (DOMAIN groups) \X FileNames :
            /\ p[2] \in Range(groups[p[1]].image_filenames)
            /\ \/ p[2] \notin DOMAIN image_to_group
               \/ image_to_group[p[2]] # p[1]}}

\* ---------------------------------------------------------------- actions
create_group(name, image_filenames) ==
    /\ next_gid < MaxGroups
    /\ LET st == CreateGroupSt(Store(groups, image_to_group), next_gid + 1,
                               name, image_filenames)
       IN  /\ groups' = st.groups
           /\ image_to_group' = st.image_to_group
    /\ next_gid' = next_gid + 1
    /\ last' = "create_group"
    /\ UNCHANGED NotGroup

add_images_to_group(group_id, image_filenames) ==
    /\ LET st == IF group_id \in DOMAIN groups
                 THEN AddAll(Store(groups, image_to_group), group_id, image_filenames)
                 ELSE Store(groups, image_to_group)
       IN  /\ \A g \in DOMAIN st.groups : Len(st.groups[g].image_filenames) <= MaxMembers
           /\ groups' = st.groups
           /\ image_to_group' = st.image_to_group
    /\ last' = "add_images_to_group"
    /\ UNCHANGED <<next_gid, NotGroup>>

remove_images_from_group(group_id, image_filenames) ==
    /\ LET st == IF group_id \in DOMAIN groups
                 THEN RemoveAll(Store(groups, image_to_group), group_id, image_filenames)
                 ELSE Store(groups, image_to_group)
       IN  /\ groups' = st.groups
           /\ image_to_group' = st.image_to_group
    /\ last' = "remove_images_from_group"
    /\ UNCHANGED <<next_gid, NotGroup>>

delete_group(group_id) ==
    /\ LET st == DeleteGroupSt(Store(groups, image_to_group), group_id)
       IN  /\ groups' = st.groups
           /\ image_to_group' = st.image_to_group
    /\ result' = [returned |-> group_id \in DOMAIN groups]
    /\ last' = "delete_group"
    /\ UNCHANGED <<next_gid, tvars, cvars, pvars, disk, args, bulk_calls>>

group_remove_image(filename) ==
    /\ LET st == RemoveImageSt(Store(groups, image_to_group), filename)
       IN  /\ groups' = st.groups
           /\ image_to_group' = st.image_to_group
    /\ last' = "GroupManager.remove_image"
    /\ UNCHANGED <<next_gid, NotGroup>>

call_validate_consistency ==
    /\ result' = [issues |-> validate_consistency]
    /\ last' = "validate_consistency"
    /\ UNCHANGED <<gvars, tvars, cvars, pvars, disk, args, bulk_calls>>

toggle_group_expansion(group_id) ==
    /\ groups' = IF group_id \in DOMAIN groups
                 THEN [groups EXCEPT ![group_id].expanded = ~@]
                 ELSE groups
    /\ last' = "toggle_group_expansion"
    /\ UNCHANGED <<image_to_group, next_gid, NotGroup>>

rename_image(old_filename, new_filename) ==
    /\ old_filename \in DOMAIN image_to_group =>
           image_to_group[old_filename] \in DOMAIN groups   \* else KeyError
    /\ LET st == RenameImageSt(Store(groups, image_to_group), old_filename, new_filename)
       IN  /\ groups' = st.groups
           /\ image_to_group' = st.image_to_group
    /\ last' = "rename_image"
    /\ UNCHANGED <<next_gid, NotGroup>>


\* -------------------------------------------------------------- tag store
\* str.strip(): drops the whitespace at both ends
RECURSIVE LStrip(_)
LStrip(s) == IF s # <<>> /\ Head(s) = " " THEN LStrip(Tail(s)) ELSE s

RECURSIVE RStrip(_)
RStrip(s) ==
    IF s # <<>> /\ s[Len(s)] = " " THEN RStrip(SubSeq(s, 1, Len(s) - 1)) ELSE s

Strip(s) == RStrip(LStrip(s))

\* [tag.strip() for tag in tags if tag.strip()]
RECURSIVE CleanTags(_)
CleanTags(tags) ==
    IF tags = <<>> THEN <<>>
    ELSE (IF Strip(Head(tags)) # <<>> THEN <<Strip(Head(tags))>> ELSE <<>>)
         \o CleanTags(Tail(tags))

\* The tag store as a value, for the loops that update it tag by tag.
TagStore(a, c, i, k) ==
    [available_tags |-> a, tag_categories |-> c, image_tags |-> i, keyword_tag |-> k]

CurTags == TagStore(available_tags, tag_categories, image_tags, keyword_tag)

\* TagManager.add_tag(tag, category="general")
AddTagSt(ts, tag) ==
    IF Strip(tag) = <<>> THEN ts
    ELSE LET t == Strip(tag)
             cats == IF "general" \in DOMAIN ts.tag_categories
                     THEN ts.tag_categories
                     ELSE DictSet(ts.tag_categories, "general", <<>>)
         IN  [ts EXCEPT !.available_tags = @ \cup {t},
                        !.tag_categories =
                            [cats EXCEPT !["general"] =
                                IF t \in Range(@) THEN @ ELSE Append(@, t)]]

\* the loop of apply_tags_to_image that registers the tags
RECURSIVE AddTagsSt(_, _)
AddTagsSt(ts, tags) ==
    IF tags = <<>> THEN ts ELSE AddTagsSt(AddTagSt(ts, Head(tags)), Tail(tags))

\* a variant of apply_tags_to_image that extends the stored list instead of
\* replacing it
ApplyTagsExtend(ts, filename, tags) ==
    LET clean_tags == CleanTags(tags)
        old == IF filename \in DOMAIN ts.image_tags THEN ts.image_tags[filename] ELSE <<>>
    IN  AddTagsSt([ts EXCEPT !.image_tags = DictSet(@, filename, old \o clean_tags)], clean_tags)

\* TagManager.apply_tags_to_image
ApplyTagsSt(ts, filename, tags) ==
    LET clean_tags == CleanTags(tags)
    IN  AddTagsSt([ts EXCEPT !.image_tags = DictSet(@, filename, clean_tags)], clean_tags)

\* list(set(xs)): the elements once each, in an order the build chooses
Orderings(S) ==
    {q \in [1..Cardinality(S) -> S] : \A i, j \in 1..Cardinality(S) : i # j => q[i] # q[j]}

\* a variant of the merge that forgets the tags the image had
MergedNewOnly(ts, filename, tags) == Range(CleanTags(tags))

\* the list add_tags_to_image merges: list(set(existing + stripped new tags))
MergedTagSet(ts, filename, tags) ==
    Range(IF filename \in DOMAIN ts.image_tags THEN ts.image_tags[filename] ELSE <<>>)
    \cup Range(CleanTags(tags))

\* the tag removal of one list: `if tag in l: l.remove(tag)`
RemoveTagFromList(l, tag) == IF tag \in Range(l) THEN ListRemove(l, tag) ELSE l

\* TagManager.remove_tag
RemoveTagSt(ts, tag) ==
    TagStore(ts.available_tags \ {tag},
             [c \in DOMAIN ts.tag_categories |-> RemoveTagFromList(ts.tag_categories[c], tag)],
             [f \in DOMAIN ts.image_tags |-> RemoveTagFromList(ts.image_tags[f], tag)],
             IF ts.keyword_tag = Some(tag) THEN None ELSE ts.keyword_tag)

\* TagManager.set_keyword_tag
SetKeywordSt(ts, tag) ==
    IF tag \in ts.available_tags THEN [ts EXCEPT !.keyword_tag = Some(tag)] ELSE ts

\* TagManager.toggle_keyword_tag
ToggleKeywordSt(ts, tag) ==
    IF ts.keyword_tag = Some(tag) THEN [ts EXCEPT !.keyword_tag = None]
    ELSE [ts EXCEPT !.keyword_tag = Some(tag)]

\* TagManager._sort_tags_with_keyword_first
RECURSIVE Without(_, _)
Without(tags, tag) ==
    IF tags = <<>> THEN <<>>
    ELSE (IF Head(tags) # tag THEN <<Head(tags)>> ELSE <<>>) \o Without(Tail(tags), tag)

sort_tags_with_keyword_first(kw, tags) ==
    IF kw = None \/ kw[1] = <<>> \/ kw[1] \notin Range(tags) THEN tags
    ELSE <<kw[1]>> \o Without(tags, kw[1])

\* TagManager.get_tags_for_image
GetTagsSt(ts, filename) ==
    sort_tags_with_keyword_first(ts.keyword_tag,
        IF filename \in DOMAIN ts.image_tags THEN ts.image_tags[filename] ELSE <<>>)

get_tags_for_image(filename) == GetTagsSt(CurTags, filename)

SetTags(ts) ==
    /\ available_tags' = ts.available_tags
    /\ tag_categories' = ts.tag_categories
    /\ image_tags' = ts.image_tags
    /\ keyword_tag' = ts.keyword_tag

\* TagManager.rename_image, on the filename -> tags mapping
RenameTagsSt(image_tags_map, old_filename, new_filename) ==
    IF old_filename \in DOMAIN image_tags_map
    THEN DictDel(DictSet(image_tags_map, new_filename, image_tags_map[old_filename]),
                 old_filename)
    ELSE image_tags_map

tag_rename_image(old_filename, new_filename) ==
    /\ image_tags' = RenameTagsSt(image_tags, old_filename, new_filename)
    /\ args' = [old_filename |-> old_filename, new_filename |-> new_filename]
    /\ last' = "TagManager.rename_image"
    /\ UNCHANGED <<available_tags, tag_categories, keyword_tag, gvars, cvars, pvars,
                   disk, result, bulk_calls>>

add_tag(tag) ==
    /\ SetTags(AddTagSt(CurTags, tag))
    /\ last' = "add_tag"
    /\ UNCHANGED NotTag

remove_tag(tag) ==
    /\ SetTags(RemoveTagSt(CurTags, tag))
    /\ last' = "remove_tag"
    /\ UNCHANGED NotTag

apply_tags_to_image(filename, tags) ==
    /\ SetTags(ApplyTagsSt(CurTags, filename, tags))
    /\ last' = "apply_tags_to_image"
    /\ UNCHANGED NotTag

add_tags_to_image(filename, tags) ==
    /\ \E all_tags \in Orderings(MergedTagSet(CurTags, filename, tags)) :
           SetTags(ApplyTagsSt(CurTags, filename, all_tags))
    /\ last' = "add_tags_to_image"
    /\ UNCHANGED NotTag

remove_tag_from_image(filename, tag) ==
    /\ SetTags([CurTags EXCEPT !.image_tags =
                   IF filename \in DOMAIN @
                   THEN [@ EXCEPT ![filename] = RemoveTagFromList(@, tag)]
                   ELSE @])
    /\ last' = "remove_tag_from_image"
    /\ UNCHANGED NotTag

set_keyword_tag(tag) ==
    /\ SetTags(SetKeywordSt(CurTags, tag))
    /\ last' = "set_keyword_tag"
    /\ UNCHANGED NotTag

clear_keyword_tag ==
    /\ SetTags([CurTags EXCEPT !.keyword_tag = None])
    /\ last' = "clear_keyword_tag"
    /\ UNCHANGED NotTag

toggle_keyword_tag(tag) ==
    /\ SetTags(ToggleKeywordSt(CurTags, tag))
    /\ last' = "toggle_keyword_tag"
    /\ UNCHANGED NotTag


\* ------------------------------------------------------------ file names
\* str.lower() on the tokens that have an upper case
Lower(tok) ==
    CASE tok = ".JPG" -> ".jpg"
      [] tok = "A" -> "a"
      [] tok = "B" -> "b"
      [] OTHER -> tok

LowerStr(s) == [i \in DOMAIN s |-> Lower(s[i])]

\* the code point order of the tokens: '.' < digits < upper case < '_' < lower case
TokenRank(tok) ==
    CASE tok = " " -> 0
      [] tok = "," -> 1
      [] tok = ".JPG" -> 10
      [] tok = ".jpg" -> 11
      [] tok = ".json" -> 12
      [] tok = ".txt" -> 13
      [] tok = "0" -> 20
      [] tok = "1" -> 21
      [] tok = "2" -> 22
      [] tok = "3" -> 23
      [] tok = "4" -> 24
      [] tok = "A" -> 30
      [] tok = "B" -> 31
      [] tok = "_" -> 40
      [] tok = "a" -> 50
      [] tok = "b" -> 51
      [] tok = "p" -> 52
      [] tok = "q" -> 53
      [] tok = "x" -> 54
      [] tok = "y" -> 55
      [] tok = "z" -> 56
      [] OTHER -> 60

\* s < t for Python strings
RECURSIVE StrLess(_, _)
StrLess(s, t) ==
    IF t = <<>> THEN FALSE
    ELSE IF s = <<>> THEN TRUE
    ELSE IF Head(s) # Head(t) THEN TokenRank(Head(s)) < TokenRank(Head(t))
    ELSE StrLess(Tail(s), Tail(t))

\* list.sort() of a set of distinct names
RECURSIVE SortNames(_)
SortNames(S) ==
    IF S = {} THEN <<>>
    ELSE LET m == CHOOSE x \in S : \A y \in S \ {x} : StrLess(x, y)
         IN  <<m>> \o SortNames(S \ {m})

IsExtension(tok) == tok \in {".jpg", ".JPG", ".txt", ".json"}

\* os.path.splitext(name)[1] and [0]
ExtOf(name) == IF name # <<>> /\ IsExtension(name[Len(name)]) THEN <<name[Len(name)]>> ELSE <<>>
StemOf(name) == SubSeq(name, 1, Len(name) - Len(ExtOf(name)))

\* f.lower().endswith(('.jpg', '.jpeg', '.png', '.webp'))
IsImageName(name) == LowerStr(ExtOf(name)) = <<".jpg">>

\* os.path.splitext(filename)[0] + '.txt'
TxtNameOf(filename) == StemOf(filename) \o <<".txt">>

\* ------------------------------------------------------- group display
\* a sort of the groups by name as written, upper case before lower case
SortedByRawName(gs, ids) ==
    IF ids = {} THEN <<>>
    ELSE LET Before(x, y) == \/ StrLess(gs[x].name, gs[y].name)
                             \/ gs[x].name = gs[y].name /\ x < y
             LessCount(x) == Cardinality({y \in ids : Before(y, x)})
         IN  [k \in 1..Cardinality(ids) |-> CHOOSE x \in ids : LessCount(x) = k - 1]

\* GroupManager.get_all_groups: sorted(groups.values(), key=name.lower()); the
\* sort is stable, groups of one lowered name stay in the order of the dict,
\* which is the order the ids were handed out in
get_all_groups(gs, ids) ==
    IF ids = {} THEN <<>>
    ELSE LET Before(x, y) == \/ StrLess(LowerStr(gs[x].name), LowerStr(gs[y].name))
                             \/ LowerStr(gs[x].name) = LowerStr(gs[y].name) /\ x < y
             LessCount(x) == Cardinality({y \in ids : Before(y, x)})
         IN  [k \in 1..Cardinality(ids) |-> CHOOSE x \in ids : LessCount(x) = k - 1]

\* GroupManager.get_ungrouped_images
get_ungrouped_images(all_image_filenames) ==
    SelectSeq(all_image_filenames, LAMBDA f : f \notin DOMAIN image_to_group)

\* the entries get_display_order emits for one group
GroupEntries(group_id, all_image_filenames) ==
    <<[type |-> "group", group_id |-> group_id, filename |-> <<>>, is_group_member |-> FALSE]>>
    \o (IF groups[group_id].expanded
        THEN LET shown == SelectSeq(groups[group_id].image_filenames,
                                    LAMBDA f : f \in Range(all_image_filenames))
             IN  [k \in DOMAIN shown |->
                     [type |-> "image", group_id |-> 0, filename |-> shown[k],
                      is_group_member |-> TRUE]]
        ELSE <<>>)

RECURSIVE GroupsEntries(_, _)
GroupsEntries(group_ids, all_image_filenames) ==
    IF group_ids = <<>> THEN <<>>
    ELSE GroupEntries(Head(group_ids), all_image_filenames)
         \o GroupsEntries(Tail(group_ids), all_image_filenames)

\* GroupManager.get_display_order; an entry is (type, data, is_group_member)
\* with data a group id or a filename
get_display_order(all_image_filenames) ==
    LET ungrouped == get_ungrouped_images(all_image_filenames)
    IN  GroupsEntries(get_all_groups(groups, DOMAIN groups), all_image_filenames)
        \o [k \in DOMAIN ungrouped |->
               [type |-> "image", group_id |-> 0, filename |-> ungrouped[k],
                is_group_member |-> FALSE]]

\* -------------------------------------------------------------- the disk
\* A folder path names a directory, a plain file or nothing. A directory holds
\* image files (name -> content), .txt sidecars (name -> text), tags.json,
\* the consolidated <folder>_descriptions.json and groups.json.
NoJson == [kind |-> "absent", data |-> <<>>]
JsonOf(kind, data) == [kind |-> kind, data |-> data]

DirOf(images, txt, tags_json, desc_json) ==
    [kind |-> "dir", images |-> images, txt |-> txt,
     tags_json |-> tags_json, desc_json |-> desc_json, groups_json |-> NoJson]

NotADir(kind) == [kind |-> kind, images |-> <<>>, txt |-> <<>>,
                  tags_json |-> NoJson, desc_json |-> NoJson, groups_json |-> NoJson]

\* os.listdir(folder): the names of the files of a directory
ListDir(d) ==
    (DOMAIN d.images) \cup (DOMAIN d.txt)
    \cup (IF d.tags_json.kind # "absent" THEN {<<"tags", ".json">>} ELSE {})
    \cup (IF d.desc_json.kind # "absent" THEN {<<"descriptions", ".json">>} ELSE {})
    \cup (IF d.groups_json.kind # "absent" THEN {<<"groups", ".json">>} ELSE {})

\* DataManager.get_image_files
get_image_files(d) == {f \in DOMAIN d.images : IsImageName(f)}

\* ------------------------------------------------------------ the catalog
\* DataManager._load_descriptions_from_json: the descriptions of the first
\* .json file, in listdir order, that yields a non-empty mapping. A list file
\* gives its {fileName, description} items; a dict file (tags.json,
\* groups.json) is taken whole, and none of its keys is an image filename.
DescriptionsOfList(items) ==
    [f \in {items[i].fileName : i \in DOMAIN items} |->
        items[CHOOSE i \in DOMAIN items :
                 items[i].fileName = f
                 /\ \A j \in DOMAIN items : items[j].fileName = f => j <= i].description]

JsonDescriptionCandidates(d) ==
    (IF d.tags_json.kind = "dict" \/ d.groups_json.kind = "dict" THEN {<<>>} ELSE {})
    \cup (IF d.desc_json.kind = "list" /\ d.desc_json.data # <<>>
          THEN {DescriptionsOfList(d.desc_json.data)} ELSE {})

load_descriptions_from_json(d) ==
    IF JsonDescriptionCandidates(d) = {} THEN {<<>>} ELSE JsonDescriptionCandidates(d)

\* DataManager._get_description_for_image
get_description_for_image(d, filename, json_descriptions) ==
    IF filename \in DOMAIN json_descriptions THEN json_descriptions[filename]
    ELSE IF TxtNameOf(filename) \in DOMAIN d.txt THEN Strip(d.txt[TxtNameOf(filename)])
    ELSE <<>>

\* the row index load_images_from_folder gives the k-th record (k from 1)
LoadRowIndex(k) == k - 1

\* the records load_images_from_folder builds
LoadedRecords(folder_path, d, json_descriptions) ==
    LET image_files == SortNames(get_image_files(d))
    IN  [k \in DOMAIN image_files |->
            [filename |-> image_files[k],
             path |-> <<folder_path, image_files[k]>>,
             description |-> get_description_for_image(d, image_files[k], json_descriptions),
             row_index |-> LoadRowIndex(k)]]

\* a load that asks for a directory only
LoadSucceedsOnDirectory(folder_path) ==
    disk[folder_path].kind = "dir"

\* DataManager.load_images_from_folder succeeds
LoadSucceeds(folder_path) ==
    /\ disk[folder_path].kind = "dir"
    /\ get_image_files(disk[folder_path]) # {}

\* remove_image without its renumbering loop
ReindexSkipped(records) == records

\* the row indices remove_image gives the remaining records
Reindex(records) == [k \in DOMAIN records |-> [records[k] EXCEPT !.row_index = k - 1]]

\* del list[i], i from 0
ListDel(l, i) == SubSeq(l, 1, i) \o SubSeq(l, i + 2, Len(l))

\* a remove_image that takes a negative index the way del list[i] does
RemoveImageWrapping(records, index) ==
    IF 0 <= index /\ index < Len(records) THEN Reindex(ListDel(records, index))
    ELSE IF index < 0 /\ Len(records) + index >= 0
    THEN Reindex(ListDel(records, Len(records) + index))
    ELSE records

\* DataManager.remove_image, as a function of the list
RemoveImageAt(records, index) ==
    IF 0 <= index /\ index < Len(records) THEN Reindex(ListDel(records, index))
    ELSE records

\* DataManager.get_stats: total_images
TotalImages(records) == Len(records)

\* DataManager.append_keyword_to_all: the new description of one record
AppendKeyword(description, keyword) ==
    LET current_desc == Strip(description)
    IN  IF current_desc # <<>>
        THEN \* current_desc is stripped, so it never ends with ', ' or ' '
             current_desc \o <<",", " ">> \o keyword
        ELSE keyword

\* EventHandlers.populate_table: the row each record is given
PopulateRows(records) == [k \in DOMAIN records |-> [records[k] EXCEPT !.row_index = k - 1]]

load_images_from_folder(folder_path) ==
    /\ IF LoadSucceeds(folder_path)
       THEN \E jd \in load_descriptions_from_json(disk[folder_path]) :
                /\ images_data' = LoadedRecords(folder_path, disk[folder_path], jd)
                /\ current_folder' = Some(folder_path)
       ELSE UNCHANGED cvars
    /\ result' = [success |-> LoadSucceeds(folder_path)]
    /\ args' = [folder_path |-> folder_path]
    /\ last' = "load_images_from_folder"
    /\ UNCHANGED <<gvars, tvars, pvars, disk, bulk_calls>>

catalog_remove_image(index) ==
    /\ images_data' = RemoveImageAt(images_data, index)
    /\ result' = [returned |-> 0 <= index /\ index < Len(images_data)]
    /\ args' = [index |-> index]
    /\ last' = "remove_image"
    /\ UNCHANGED <<current_folder, gvars, tvars, pvars, disk, bulk_calls>>

update_description(index, description) ==
    /\ images_data' = IF 0 <= index /\ index < Len(images_data)
                      THEN [images_data EXCEPT ![index + 1].description = description]
                      ELSE images_data
    /\ last' = "update_description"
    /\ UNCHANGED <<current_folder, NotCatalog>>

append_keyword_to_all(keyword) ==
    /\ \A k \in DOMAIN images_data : Len(images_data[k].description) <= MaxDescLen
    /\ images_data' = IF Strip(keyword) = <<>> THEN images_data
                      ELSE [k \in DOMAIN images_data |->
                               [images_data[k] EXCEPT !.description =
                                   AppendKeyword(@, Strip(keyword))]]
    /\ last' = "append_keyword_to_all"
    /\ UNCHANGED <<current_folder, NotCatalog>>

populate_table ==
    /\ images_data' = PopulateRows(images_data)
    /\ last' = "populate_table"
    /\ UNCHANGED <<current_folder, NotCatalog>>


\* ------------------------------------------------------------ mass rename
DigitTokens == <<"0", "1", "2", "3", "4", "5", "6", "7", "8", "9">>

\* str(n) for n >= 0
RECURSIVE StrOfNat(_)
StrOfNat(n) ==
    IF n < 10 THEN <<DigitTokens[n + 1]>>
    ELSE StrOfNat(n \div 10) \o <<DigitTokens[(n % 10) + 1]>>

\* str.zfill(width)
RECURSIVE ZFill(_, _)
ZFill(s, width) == IF Len(s) >= width THEN s ELSE ZFill(<<"0">> \o s, width)

\* the zero-padding width of mass_rename_images
MinDigits == 3
NumDigits(image_files) ==
    IF Len(StrOfNat(Len(image_files))) < MinDigits THEN MinDigits
    ELSE Len(StrOfNat(Len(image_files)))

\* the new name of the i-th image of the batch (i from 1); scramble_chars is
\* empty when the order is not scrambled
NewFilename(prefix, image_files, scramble_chars, i) ==
    prefix \o <<"_">>
    \o (IF scramble_chars # <<>> THEN <<scramble_chars[i]>> ELSE <<>>)
    \o ZFill(StrOfNat(i), NumDigits(image_files))
    \o ExtOf(image_files[i])

\* a pre-flight that looks at the first image of the batch only
CheckFirstOnly(d, prefix, image_files, scramble_chars) ==
    {NewFilename(prefix, image_files, scramble_chars, i) : i \in
        {j \in DOMAIN image_files :
            /\ j = 1
            /\ NewFilename(prefix, image_files, scramble_chars, j) # image_files[j]
            /\ NewFilename(prefix, image_files, scramble_chars, j) \in ListDir(d)}}

\* ImageProcessor._check_rename_conflicts: the conflicting new names
check_rename_conflicts(d, prefix, image_files, scramble_chars) ==
    {NewFilename(prefix, image_files, scramble_chars, i) : i \in
        {j \in DOMAIN image_files :
            /\ NewFilename(prefix, image_files, scramble_chars, j) # image_files[j]
            /\ NewFilename(prefix, image_files, scramble_chars, j) \in ListDir(d)}}

\* ImageProcessor._generate_scramble_characters: letters drawn without
\* replacement, the alphabet reshuffled once it is used up
Alphabet == {"x", "y"}
ScrambleChars(count) ==
    {q \in [1..count -> Alphabet] :
        \A i, j \in 1..count :
            (i # j /\ (i - 1) \div Cardinality(Alphabet) = (j - 1) \div Cardinality(Alphabet))
                => q[i] # q[j]}

\* os.rename(old, new) of a name -> content mapping
FsRename(files, old, new) ==
    IF old = new THEN files
    ELSE [x \in ((DOMAIN files) \ {old}) \cup {new} |-> IF x = new THEN files[old] ELSE files[x]]

\* the report of a bulk rename
RenameReport(err, images, descriptions, errors, total) ==
    [error |-> err, renamed_images |-> images, renamed_descriptions |-> descriptions,
     errors |-> errors, total_images |-> total]

\* One pass of the rename loop, from item i on. run holds the directory, the
\* counters, the errors and old_to_new_mapping. The loop stops before item
\* cancel_at (the progress dialog's cancel); posix says whether os.rename
\* replaces an existing destination or raises.
RECURSIVE RenameLoop(_, _, _, _, _, _, _)
RenameLoop(run, prefix, image_files, scramble_chars, cancel_at, posix, i) ==
    IF i > Len(image_files) \/ i = cancel_at THEN run
    ELSE LET old == image_files[i]
             new == NewFilename(prefix, image_files, scramble_chars, i)
             old_txt == TxtNameOf(old)
             new_txt == TxtNameOf(new)
             image_ok == /\ old \in DOMAIN run.dir.images
                         /\ (posix \/ new = old \/ new \notin ListDir(run.dir))
             d1 == [run.dir EXCEPT !.images = FsRename(@, old, new)]
             has_txt == old_txt \in DOMAIN d1.txt
             txt_ok == posix \/ new_txt = old_txt \/ new_txt \notin ListDir(d1)
             next ==
                 IF ~image_ok
                 THEN [run EXCEPT !.errors = Append(@, old)]
                 ELSE IF ~has_txt
                 THEN [run EXCEPT !.dir = d1,
                                  !.renamed_images = @ + 1,
                                  !.mapping = DictSet(@, old, new)]
                 ELSE IF txt_ok
                 THEN [run EXCEPT !.dir = [d1 EXCEPT !.txt = FsRename(@, old_txt, new_txt)],
                                  !.renamed_images = @ + 1,
                                  !.renamed_descriptions = @ + 1,
                                  !.mapping = DictSet(@, old, new)]
                 ELSE [run EXCEPT !.dir = d1,
                                  !.renamed_images = @ + 1,
                                  !.mapping = DictSet(@, old, new),
                                  !.errors = Append(@, old)]
         IN  RenameLoop(next, prefix, image_files, scramble_chars, cancel_at, posix, i + 1)

\* ImageProcessor._update_json_with_new_names on one parsed .json file: the
\* loop `for item in json_data` keeps the items of a list, with fileName
\* replaced, and turns a dict into the list of its keys
UpdateJson(json, mapping) ==
    CASE json.kind = "list" ->
            JsonOf("list", [k \in DOMAIN json.data |->
                IF json.data[k].fileName \in DOMAIN mapping
                THEN [json.data[k] EXCEPT !.fileName = mapping[@]]
                ELSE json.data[k]])
      [] json.kind = "dict" -> JsonOf("keys", <<>>)
      [] OTHER -> json

update_json_with_new_names(d, mapping) ==
    [d EXCEPT !.tags_json = UpdateJson(@, mapping),
              !.desc_json = UpdateJson(@, mapping),
              !.groups_json = UpdateJson(@, mapping)]

\* ImageProcessor.mass_rename_images on a directory: the directory and the
\* report it leaves. images_to_process is None or Some(list of filenames).
MassRename(d, prefix, images_to_process, scramble_chars, cancel_at, posix) ==
    LET image_files == IF images_to_process = None
                       THEN SortNames(get_image_files(d))
                       ELSE images_to_process[1]
    IN  IF image_files = <<>> \/ check_rename_conflicts(d, prefix, image_files, scramble_chars) # {}
        THEN [dir |-> d, report |-> RenameReport(TRUE, 0, 0, <<>>, Len(image_files))]
        ELSE LET run == RenameLoop([dir |-> d, renamed_images |-> 0,
                                    renamed_descriptions |-> 0, errors |-> <<>>,
                                    mapping |-> <<>>],
                                   prefix, image_files, scramble_chars, cancel_at, posix, 1)
             IN  [dir |-> update_json_with_new_names(run.dir, run.mapping),
                  report |-> RenameReport(FALSE, run.renamed_images, run.renamed_descriptions,
                                          run.errors, Len(image_files))]

\* the batch of a call: the images in scope, in order
BatchOf(d, images_to_process) ==
    IF images_to_process = None THEN SortNames(get_image_files(d)) ELSE images_to_process[1]

mass_rename_images(folder_path, prefix, images_to_process, scramble_order, cancel_at, posix) ==
    /\ disk[folder_path].kind = "dir"
    /\ bulk_calls < MaxBulkCalls
    /\ bulk_calls' = bulk_calls + 1
    /\ \E scramble_chars \in
           (IF scramble_order
            THEN ScrambleChars(Len(BatchOf(disk[folder_path], images_to_process)))
            ELSE {<<>>}) :
           LET out == MassRename(disk[folder_path], prefix, images_to_process,
                                 scramble_chars, cancel_at, posix)
           IN  /\ disk' = [disk EXCEPT ![folder_path] = out.dir]
               /\ result' = out.report
               /\ args' = [prefix |-> prefix,
                           image_files |-> BatchOf(disk[folder_path], images_to_process),
                           scramble_chars |-> scramble_chars]
    /\ last' = "mass_rename_images"
    /\ UNCHANGED <<gvars, tvars, cvars, pvars>>


\* ------------------------------------------------------------- fix images
\* An image file's content is its size <<width, height>>; <<0, 0>> stands for
\* a file PIL cannot open.
Corrupt == <<0, 0>>
MinSide == 512
TinySide == 32

Max(a, b) == IF a >= b THEN a ELSE b
Min(a, b) == IF a <= b THEN a ELSE b

\* ImageProcessor.validate_image, on the images of a directory
validate_image(images, img_file, allow_small_images) ==
    /\ img_file \in DOMAIN images
    /\ images[img_file] # Corrupt
    /\ LET width == images[img_file][1]
           height == images[img_file][2]
       IN  /\ allow_small_images \/ ~(width < MinSide \/ height < MinSide)
           /\ ~(width < TinySide \/ height < TinySide)

\* ImageProcessor._upscale_small_image: the size after upscaling
upscale_small_image(size) ==
    LET min_dimension == Min(size[1], size[2])
    IN  IF min_dimension >= MinSide THEN size
        ELSE <<(size[1] * MinSide) \div min_dimension, (size[2] * MinSide) \div min_dimension>>

\* ImageProcessor._resize_image: the size after resizing
resize_image(size, target_size, keep_aspect) ==
    LET width == size[1]
        height == size[2]
        new_size == IF width >= height
                    THEN <<target_size, (height * target_size) \div width>>
                    ELSE <<(width * target_size) \div height, target_size>>
    IN  IF keep_aspect THEN new_size ELSE <<target_size, target_size>>

\* the report of fix_images
FixReport(err, processed, skipped, invalid, total) ==
    [error |-> err, processed |-> processed, skipped |-> skipped,
     invalid |-> invalid, total |-> total]

\* One pass of the loop of fix_images, from item i on. run holds the output
\* directory (the source directory itself when the two folders are the same),
\* the counters and the list of invalid images. The loop stops before item
\* cancel_at (the progress dialog's cancel).
RECURSIVE FixLoop(_, _, _, _, _, _, _, _, _)
FixLoop(run, source, same, target_size, keep_aspect, resize_small_images, image_files, cancel_at, i) ==
    IF i > Len(image_files) \/ i = cancel_at THEN run
    ELSE LET img_file == image_files[i]
             src == IF same THEN run.out ELSE source
             writable == run.out.kind = "dir"
             txt_file == TxtNameOf(img_file)
             \* _copy_text_file, after the image was written and counted:
             \* shutil.copy2 raises SameFileError when the folders are the same
             sidecar(r) ==
                 IF txt_file \notin DOMAIN src.txt THEN r
                 ELSE IF same THEN [r EXCEPT !.invalid = Append(@, img_file)]
                 ELSE [r EXCEPT !.out.txt = DictSet(@, txt_file, src.txt[txt_file])]
             next ==
                 IF ~validate_image(src.images, img_file, resize_small_images)
                 THEN [run EXCEPT !.invalid = Append(@, img_file)]
                 ELSE LET size == src.images[img_file]
                          needs_upscaling ==
                              resize_small_images /\ (size[1] < MinSide \/ size[2] < MinSide)
                          img == IF needs_upscaling THEN upscale_small_image(size) ELSE size
                          is_correct_size ==
                              IF keep_aspect THEN Max(img[1], img[2]) = target_size
                              ELSE img[1] = target_size /\ img[2] = target_size
                      IN  IF is_correct_size /\ ~needs_upscaling
                          THEN IF same
                               THEN sidecar([run EXCEPT !.skipped = @ + 1])
                               ELSE IF ~writable
                               THEN [run EXCEPT !.invalid = Append(@, img_file)]
                               ELSE sidecar([run EXCEPT
                                        !.out.images = DictSet(@, img_file, size),
                                        !.skipped = @ + 1])
                          ELSE IF ~writable
                          THEN [run EXCEPT !.invalid = Append(@, img_file)]
                          ELSE sidecar([run EXCEPT
                                   !.out.images = DictSet(@, img_file,
                                       IF is_correct_size THEN img
                                       ELSE resize_image(img, target_size, keep_aspect)),
                                   !.processed = @ + 1])
         IN  FixLoop(next, source, same, target_size, keep_aspect, resize_small_images,
                     image_files, cancel_at, i + 1)

\* ImageProcessor._copy_json_files: every .json of the source is copied, a
\* failing copy is only printed
copy_json_files(source, out) ==
    IF out.kind # "dir" THEN out
    ELSE [out EXCEPT
            !.tags_json = IF source.tags_json.kind # "absent" THEN source.tags_json ELSE @,
            !.desc_json = IF source.desc_json.kind # "absent" THEN source.desc_json ELSE @,
            !.groups_json = IF source.groups_json.kind # "absent" THEN source.groups_json ELSE @]

\* the batch of fix_images: the images in scope, or every image of the
\* folder in the order os.listdir gives them
FixBatches(d, images_to_process) ==
    IF images_to_process = None THEN Orderings(get_image_files(d))
    ELSE {images_to_process[1]}

\* ImageProcessor.fix_images on a source directory and an output path: the
\* output it leaves and its report. same says that the two folders are one.
FixImages(source, output, same, target_size, keep_aspect, resize_small_images, image_files, cancel_at) ==
    IF image_files = <<>>
    THEN [out |-> output, report |-> FixReport(TRUE, 0, 0, <<>>, 0)]
    ELSE LET made == IF output.kind = "missing" THEN DirOf(<<>>, <<>>, NoJson, NoJson)
                     ELSE output
             run == FixLoop([out |-> made, processed |-> 0, skipped |-> 0,
                             invalid |-> <<>>],
                            source, same, target_size, keep_aspect,
                            resize_small_images, image_files, cancel_at, 1)
         IN  [out |-> IF same THEN run.out ELSE copy_json_files(source, run.out),
              report |-> FixReport(FALSE, run.processed, run.skipped, run.invalid,
                                   Len(image_files))]

fix_images(source_folder, target_size, keep_aspect, output_folder, resize_small_images, images_to_process, cancel_at) ==
    /\ disk[source_folder].kind = "dir"
    /\ bulk_calls < MaxBulkCalls
    /\ bulk_calls' = bulk_calls + 1
    /\ \E image_files \in FixBatches(disk[source_folder], images_to_process) :
           LET out == FixImages(disk[source_folder], disk[output_folder],
                                source_folder = output_folder, target_size, keep_aspect,
                                resize_small_images, image_files, cancel_at)
           IN  /\ disk' = [disk EXCEPT ![output_folder] = out.out]
               /\ result' = out.report
               /\ args' = [source_folder |-> source_folder,
                           output_folder |-> output_folder,
                           image_files |-> image_files,
                           cancel_at |-> cancel_at]
    /\ last' = "fix_images"
    /\ UNCHANGED <<gvars, tvars, cvars, pvars>>

\* ------------------------------------------------------- create duplicates
\* the transform keys, in the order create_duplicates appends them
TransformKeys == <<"flip", "rot90l", "rot90r", "rot180">>

\* a transform list that ends with the simple duplicate whatever was requested
TransformOpsWithDuplicate(transformations) ==
    SelectSeq(TransformKeys, LAMBDA k : k \in transformations) \o <<"duplicate">>

\* the transform list built from the flags that are set, or the simple
\* duplicate when none is
TransformOps(transformations) ==
    LET ops == SelectSeq(TransformKeys, LAMBDA k : k \in transformations)
    IN  IF ops = <<>> THEN <<"duplicate">> ELSE ops

\* the filename suffix of a transform
SuffixOf(transform_key) ==
    CASE transform_key = "flip" -> <<"_flipHor">>
      [] transform_key = "rot90l" -> <<"_rotLeft">>
      [] transform_key = "rot90r" -> <<"_rotRight">>
      [] transform_key = "rot180" -> <<"_flipVert">>
      [] transform_key = "duplicate" -> <<"_dup">>

\* ImageProcessor._apply_transformation: the size of the transformed image
apply_transformation(size, transform_key) ==
    IF transform_key \in {"rot90l", "rot90r"} THEN <<size[2], size[1]>> ELSE size

\* f"{base_name}{suffix}{img_ext}"
VariantName(filename, transform_key) ==
    StemOf(filename) \o SuffixOf(transform_key) \o ExtOf(filename)

\* the transformed versions of one opened image, from transform k on: each is
\* saved and counted, and the sidecar of the original is copied under the
\* variant's name
RECURSIVE DupVariants(_, _, _, _, _)
DupVariants(run, src_txt, img_file, transform_ops, k) ==
    IF k > Len(transform_ops) THEN run
    ELSE LET new_img_name == VariantName(img_file, transform_ops[k])
             txt_file == TxtNameOf(img_file)
             size == run.original
             saved == [run EXCEPT
                          !.out.images = DictSet(@, new_img_name,
                                             apply_transformation(size, transform_ops[k])),
                          !.created_files = @ + 1,
                          !.written = Append(@, [of |-> img_file, name |-> new_img_name])]
             copied == IF txt_file \in DOMAIN src_txt
                       THEN [saved EXCEPT !.out.txt =
                                DictSet(@, TxtNameOf(new_img_name), src_txt[txt_file])]
                       ELSE saved
         IN  DupVariants(copied, src_txt, img_file, transform_ops, k + 1)

\* The loop of create_duplicates, from item i on. run holds the output
\* directory (the input directory itself when the folders are the same), the
\* counter, the errors and the image files saved so far. The loop stops
\* before item cancel_at (the progress dialog's cancel).
RECURSIVE DupLoop(_, _, _, _, _, _, _)
DupLoop(run, source, same, transform_ops, image_files, cancel_at, i) ==
    IF i > Len(image_files) \/ i = cancel_at THEN run
    ELSE LET img_file == image_files[i]
             src == IF same THEN run.out ELSE source
             failed == [run EXCEPT !.errors = Append(@, img_file)]
             next ==
                 IF img_file \notin DOMAIN src.images \/ src.images[img_file] = Corrupt
                 THEN failed
                 ELSE LET size == src.images[img_file]
                          opened == [run EXCEPT !.original = size]
                      IN  IF same THEN DupVariants(opened, src.txt, img_file, transform_ops, 1)
                          ELSE IF run.out.kind # "dir" THEN failed
                          ELSE LET saved == [opened EXCEPT
                                       !.out.images = DictSet(@, img_file, size),
                                       !.created_files = @ + 1,
                                       !.written = Append(@, [of |-> img_file,
                                                              name |-> img_file])]
                                   txt_file == TxtNameOf(img_file)
                                   copied == IF txt_file \in DOMAIN src.txt
                                             THEN [saved EXCEPT !.out.txt =
                                                      DictSet(@, txt_file, src.txt[txt_file])]
                                             ELSE saved
                               IN  DupVariants(copied, src.txt, img_file, transform_ops, 1)
         IN  DupLoop(next, source, same, transform_ops, image_files, cancel_at, i + 1)

\* the .json files of a directory, each named by the field that holds it
JsonFiles(d) ==
    {n \in {"tags_json", "desc_json", "groups_json"} : d[n].kind # "absent"}

\* the list _create_augmented_json builds from the items of the original
\* JSON: each item, then one entry per transform of the list under the
\* variant's name and with the item's description
RECURSIVE AugmentedItems(_, _)
AugmentedItems(items, transform_list) ==
    IF items = <<>> THEN <<>>
    ELSE <<[fileName |-> items[1].fileName, description |-> items[1].description]>>
         \o [k \in DOMAIN transform_list |->
                [fileName |-> VariantName(items[1].fileName, transform_list[k]),
                 description |-> items[1].description]]
         \o AugmentedItems(Tail(items), transform_list)

\* a file name -> JSON mapping of a directory with one more file
WithAugmented(out, json_file, json) ==
    [n \in (DOMAIN out) \cup {"augmented"} |->
        IF n = "augmented"
        THEN DictSet(IF "augmented" \in DOMAIN out THEN out.augmented ELSE <<>>,
                     json_file, json)
        ELSE out[n]]

\* ImageProcessor._create_augmented_json: the output directories it can
\* leave. It reads the first .json file os.listdir gives; the keys of a dict
\* file are strings without fileName and description, so such a file gives the
\* empty list. The list is written over the file read when the folders are
\* the same and as <name>_augmented.json in the output otherwise; a failing
\* write is only printed.
create_augmented_json(input, out, same, transform_list) ==
    IF JsonFiles(input) = {} THEN {[out |-> out, json |-> None]}
    ELSE {LET original_json == input[json_file]
              new_json_data ==
                  JsonOf("list", IF original_json.kind = "list"
                                 THEN AugmentedItems(original_json.data, transform_list)
                                 ELSE <<>>)
          IN  IF out.kind # "dir" THEN [out |-> out, json |-> None]
              ELSE [out |-> IF same THEN [out EXCEPT ![json_file] = new_json_data]
                            ELSE WithAugmented(out, json_file, new_json_data),
                    json |-> Some([read |-> original_json, written |-> new_json_data])] :
          json_file \in JsonFiles(input)}

\* the batch of create_duplicates: the images in scope, or every image of
\* the folder in the order os.listdir gives them
DupBatches(d, images_to_process) ==
    IF images_to_process = None THEN Orderings(get_image_files(d))
    ELSE {images_to_process[1]}

\* the report of create_duplicates
DupReport(err, created_files, transformations, original_images, errors, same_folder) ==
    [error |-> err, created_files |-> created_files, transformations |-> transformations,
     original_images |-> original_images, errors |-> errors, same_folder |-> same_folder]

\* ImageProcessor.create_duplicates on an input directory and an output path:
\* the outputs it can leave, each with the report, the image files saved and
\* the JSON read and written
CreateDuplicates(source, output, same, transformations, image_files, cancel_at) ==
    IF image_files = <<>>
    THEN {[out |-> output, report |-> DupReport(TRUE, 0, 0, 0, <<>>, same),
           written |-> <<>>, json |-> None]}
    ELSE LET transform_ops == TransformOps(transformations)
             made == IF ~same /\ output.kind = "missing"
                     THEN DirOf(<<>>, <<>>, NoJson, NoJson) ELSE output
             run == DupLoop([out |-> made, created_files |-> 0, errors |-> <<>>,
                             written |-> <<>>, original |-> Corrupt],
                            source, same, transform_ops, image_files, cancel_at, 1)
         IN  {[out |-> o.out,
               report |-> DupReport(FALSE, run.created_files, Len(transform_ops),
                                    Len(image_files), run.errors, same),
               written |-> run.written,
               json |-> o.json] :
                  o \in create_augmented_json(IF same THEN run.out ELSE source,
                                              run.out, same, transform_ops)}

create_duplicates(input_folder, output_folder, transformations, images_to_process, cancel_at) ==
    /\ disk[input_folder].kind = "dir"
    /\ bulk_calls < MaxBulkCalls
    /\ bulk_calls' = bulk_calls + 1
    /\ \E image_files \in DupBatches(disk[input_folder], images_to_process) :
       \E done \in CreateDuplicates(disk[input_folder], disk[output_folder],
                                    input_folder = output_folder, transformations,
                                    image_files, cancel_at) :
           /\ disk' = [disk EXCEPT ![output_folder] = done.out]
           /\ result' = done.report
           /\ args' = [input_folder |-> input_folder,
                       output_folder |-> output_folder,
                       transformations |-> transformations,
                       image_files |-> image_files,
                       cancel_at |-> cancel_at,
                       written |-> done.written,
                       json |-> done.json]
    /\ last' = "create_duplicates"
    /\ UNCHANGED <<gvars, tvars, cvars, pvars>>

\* ------------------------------------------------------- tags and text
\* re.split(r'[,;]\s*', text): the pieces between the separators, the white
\* space after a separator consumed with it
RECURSIVE SplitTags(_, _, _)
SplitTags(text, piece, pieces) ==
    IF text = <<>> THEN Append(pieces, piece)
    ELSE IF Head(text) \in {",", ";"}
    THEN SplitTags(LStrip(Tail(text)), <<>>, Append(pieces, piece))
    ELSE SplitTags(Tail(text), Append(piece, Head(text)), pieces)

\* re.sub(r'\s+', ' ', tag)
RECURSIVE CollapseSpaces(_)
CollapseSpaces(tag) ==
    IF tag = <<>> THEN <<>>
    ELSE IF Head(tag) = " " THEN <<" ">> \o CollapseSpaces(LStrip(tag))
    ELSE <<Head(tag)>> \o CollapseSpaces(Tail(tag))

\* the clean-up loop of parse_tags_from_text
RECURSIVE NormalizeTags(_)
NormalizeTags(pieces) ==
    IF pieces = <<>> THEN <<>>
    ELSE (IF Strip(Head(pieces)) # <<>>
          THEN <<CollapseSpaces(Strip(Head(pieces)))>> ELSE <<>>)
         \o NormalizeTags(Tail(pieces))

\* TagManager.parse_tags_from_text
parse_tags_from_text(text) ==
    IF Strip(text) = <<>> THEN <<>>
    ELSE NormalizeTags(SplitTags(Strip(text), <<>>, <<>>))

\* ", ".join(tags)
RECURSIVE JoinTags(_)
JoinTags(tags) ==
    IF tags = <<>> THEN <<>>
    ELSE IF Len(tags) = 1 THEN tags[1]
    ELSE tags[1] \o <<",", " ">> \o JoinTags(Tail(tags))

\* TagManager.format_tags_for_description
format_tags_for_description(ts, tags) ==
    JoinTags(sort_tags_with_keyword_first(ts.keyword_tag, tags))

\* the loop of TagManager.migrate_from_text_descriptions
RECURSIVE MigrateSt(_, _)
MigrateSt(ts, image_data_list) ==
    IF image_data_list = <<>> THEN ts
    ELSE LET img_data == Head(image_data_list)
             tags == parse_tags_from_text(img_data.description)
         IN  MigrateSt(IF Strip(img_data.description) # <<>> /\ tags # <<>>
                       THEN ApplyTagsSt(ts, img_data.filename, tags)
                       ELSE ts,
                       Tail(image_data_list))

\* the count migrate_from_text_descriptions returns
MigratedCount(image_data_list) ==
    Cardinality({k \in DOMAIN image_data_list : Strip(image_data_list[k].description) # <<>>})

\* TagManager.migrate_from_text_descriptions on the records of the catalog
migrate_from_text_descriptions ==
    /\ SetTags(MigrateSt(CurTags, images_data))
    /\ result' = [returned |-> MigratedCount(images_data)]
    /\ last' = "migrate_from_text_descriptions"
    /\ UNCHANGED <<gvars, cvars, pvars, disk, args, bulk_calls>>

\* TagManager.export_to_text_descriptions: the records with their new text
ExportRecords(ts, image_data_list) ==
    [k \in DOMAIN image_data_list |->
        IF GetTagsSt(ts, image_data_list[k].filename) # <<>>
        THEN [image_data_list[k] EXCEPT !.description =
                 format_tags_for_description(ts, GetTagsSt(ts, image_data_list[k].filename))]
        ELSE image_data_list[k]]

\* --------------------------------------------------- project persistence
\* the store a manager is constructed with
NoTags == TagStore({}, <<>>, <<>>, None)
NoGroups == Store(<<>>, <<>>)

\* TagManager.save_tags_to_project: the directory with tags.json written
SaveTagsJson(d, ts) == [d EXCEPT !.tags_json = JsonOf("dict", ts)]

\* TagManager.load_tags_from_project: the store after it. Without tags.json it
\* returns early; a tags.json that is not a dict raises at the first .get,
\* before any field is assigned.
LoadTagsSt(ts, d) == IF d.tags_json.kind = "dict" THEN d.tags_json.data ELSE ts

\* GroupManager.load_groups_from_project, likewise. A groups.json that is not
\* a dict raises after self.groups = {} is assigned.
LoadGroupsSt(st, d) ==
    CASE d.groups_json.kind = "dict" -> d.groups_json.data
      [] d.groups_json.kind = "absent" -> st
      [] OTHER -> [st EXCEPT !.groups = <<>>]

\* the .txt loop of DataManager.save_descriptions, from record k on
RECURSIVE SaveTxtFiles(_, _, _)
SaveTxtFiles(txt, records, k) ==
    IF k > Len(records) THEN txt
    ELSE SaveTxtFiles(IF Strip(records[k].description) # <<>>
                      THEN DictSet(txt, TxtNameOf(records[k].filename), records[k].description)
                      ELSE DictDel(txt, TxtNameOf(records[k].filename)),
                      records, k + 1)

\* DataManager.save_descriptions: the directory after it
save_descriptions(d, records) ==
    IF records = <<>> THEN d
    ELSE [d EXCEPT !.txt = SaveTxtFiles(@, records, 1),
                   !.desc_json = JsonOf("list",
                       [k \in DOMAIN records |->
                           [fileName |-> records[k].filename,
                            description |-> records[k].description]])]

\* EventHandlers._auto_save_tags: the directory after it
AutoSaveDir(d, ts, records) == save_descriptions(SaveTagsJson(d, ts), ExportRecords(ts, records))

tag_set_project_folder(folder_path) ==
    /\ tag_project_folder' = Some(folder_path)
    /\ SetTags(LoadTagsSt(CurTags, disk[folder_path]))
    /\ last' = "TagManager.set_project_folder"
    /\ UNCHANGED <<gvars, cvars, group_project_folder, disk, bvars>>

group_set_project_folder(folder_path) ==
    /\ group_project_folder' = Some(folder_path)
    /\ groups' = LoadGroupsSt(Store(groups, image_to_group), disk[folder_path]).groups
    /\ image_to_group' = LoadGroupsSt(Store(groups, image_to_group), disk[folder_path]).image_to_group
    /\ last' = "GroupManager.set_project_folder"
    /\ UNCHANGED <<next_gid, tvars, cvars, tag_project_folder, disk, bvars>>

save_tags_to_project ==
    /\ tag_project_folder # None
    /\ disk[tag_project_folder[1]].kind = "dir"
    /\ disk' = [disk EXCEPT ![tag_project_folder[1]] = SaveTagsJson(@, CurTags)]
    /\ last' = "save_tags_to_project"
    /\ UNCHANGED <<gvars, tvars, cvars, pvars, bvars>>

save_groups_to_project ==
    /\ group_project_folder # None
    /\ disk[group_project_folder[1]].kind = "dir"
    /\ disk' = [disk EXCEPT ![group_project_folder[1]].groups_json =
                   JsonOf("dict", Store(groups, image_to_group))]
    /\ last' = "save_groups_to_project"
    /\ UNCHANGED <<gvars, tvars, cvars, pvars, bvars>>

\* ------------------------------------------------------------- handlers
\* EventHandlers.select_folder, the folder chosen in the dialog
select_folder(folder_path) ==
    /\ IF LoadSucceeds(folder_path)
       THEN \E jd \in load_descriptions_from_json(disk[folder_path]) :
                LET records == LoadedRecords(folder_path, disk[folder_path], jd)
                    migrated == MigrateSt(LoadTagsSt(CurTags, disk[folder_path]), records)
                IN  /\ current_folder' = Some(folder_path)
                    /\ tag_project_folder' = Some(folder_path)
                    /\ SetTags(migrated)
                    /\ IF MigratedCount(records) > 0
                       THEN /\ images_data' = ExportRecords(migrated, PopulateRows(records))
                            /\ disk' = [disk EXCEPT ![folder_path] =
                                           AutoSaveDir(@, migrated, PopulateRows(records))]
                       ELSE /\ images_data' = PopulateRows(records)
                            /\ disk' = disk
       ELSE UNCHANGED <<cvars, tvars, tag_project_folder, disk>>
    /\ last' = "select_folder"
    /\ UNCHANGED <<gvars, group_project_folder, bvars>>

\* what EventHandlers.refresh_gallery does to the catalog and the tag store,
\* with the current folder holding directory d
Refreshed(d) ==
    IF d.kind = "dir" /\ get_image_files(d) # {}
    THEN \E jd \in load_descriptions_from_json(d) :
             /\ images_data' = PopulateRows(LoadedRecords(current_folder[1], d, jd))
             /\ tag_project_folder' = current_folder
             /\ SetTags(LoadTagsSt(CurTags, d))
    ELSE UNCHANGED <<images_data, tvars, tag_project_folder>>

refresh_gallery ==
    /\ current_folder # None
    /\ Refreshed(disk[current_folder[1]])
    /\ last' = "refresh_gallery"
    /\ UNCHANGED <<current_folder, gvars, group_project_folder, disk, bvars>>

\* the filenames of the records the handler passes to the processor: the
\* selected rows, or every loaded record
FilenamesOf(records) == [k \in DOMAIN records |-> records[k].filename]

SelectedImages(selected_rows) ==
    IF selected_rows = None THEN images_data
    ELSE [k \in DOMAIN selected_rows[1] |-> images_data[selected_rows[1][k] + 1]]

\* EventHandlers.mass_rename_images, confirmed by the user
EventHandlers_mass_rename_images(prefix, selected_rows, cancel_at, posix) ==
    /\ current_folder # None
    /\ images_data # <<>>
    /\ Strip(prefix) # <<>>
    /\ selected_rows # None => selected_rows[1] # <<>>
    /\ disk[current_folder[1]].kind = "dir"
    /\ bulk_calls < MaxBulkCalls
    /\ bulk_calls' = bulk_calls + 1
    /\ LET image_files == FilenamesOf(SelectedImages(selected_rows))
           out == MassRename(disk[current_folder[1]], Strip(prefix), Some(image_files),
                             <<>>, cancel_at, posix)
       IN  /\ disk' = [disk EXCEPT ![current_folder[1]] = out.dir]
           /\ result' = out.report
           /\ args' = [prefix |-> Strip(prefix), image_files |-> image_files,
                       scramble_chars |-> <<>>]
           /\ IF out.report.error
              THEN UNCHANGED <<images_data, tvars, tag_project_folder>>
              ELSE Refreshed(out.dir)
    /\ last' = "EventHandlers.mass_rename_images"
    /\ UNCHANGED <<current_folder, gvars, group_project_folder>>



\* the description-to-tags round trip on one image: its tags formatted as a
\* description, the description parsed, the parsed list applied
RoundTripSt(ts, filename) ==
    ApplyTagsSt(ts, filename,
        parse_tags_from_text(format_tags_for_description(ts, GetTagsSt(ts, filename))))

round_trip(filename) ==
    /\ SetTags(RoundTripSt(CurTags, filename))
    /\ last' = "round_trip"
    /\ UNCHANGED NotTag

\* --------------------------------------------------------- tag handlers
\* TagManager.remove_tag_from_image, as a function of the store
RemoveTagFromImageSt(ts, filename, tag) ==
    [ts EXCEPT !.image_tags =
        IF filename \in DOMAIN @
        THEN [@ EXCEPT ![filename] = RemoveTagFromList(@, tag)]
        ELSE @]

\* the loop `for img_data in ...: add_tags_to_image(img_data['filename'], tags)`:
\* the stores it can leave, one merge order chosen per image
RECURSIVE AddTagsToImagesSts(_, _, _)
AddTagsToImagesSts(ts, filenames, tags) ==
    IF filenames = <<>> THEN {ts}
    ELSE UNION {AddTagsToImagesSts(ApplyTagsSt(ts, Head(filenames), all_tags),
                                   Tail(filenames), tags) :
                   all_tags \in Orderings(MergedTagSet(ts, Head(filenames), tags))}

\* random.shuffle(l): every rearrangement of the list
Shuffles(l) ==
    {[i \in DOMAIN l |-> l[q[i]]] : q \in Orderings(DOMAIN l)}

\* l.insert(pos, x) for pos in 0..len(l)
ListInsert(l, pos, x) == SubSeq(l, 1, pos) \o <<x>> \o SubSeq(l, pos + 1, Len(l))

\* EventHandlers._scramble_tag_list: the lists it can return
scramble_tag_list(kw, tags, preserve_first) ==
    IF Len(tags) <= 1 THEN {tags}
    ELSE IF kw # None /\ kw[1] # <<>> /\ kw[1] \in Range(tags)
    THEN IF preserve_first
         THEN {<<kw[1]>> \o rest : rest \in Shuffles(Without(tags, kw[1]))}
         ELSE {ListInsert(rest, pos, kw[1]) :
                  rest \in Shuffles(Without(tags, kw[1])),
                  pos \in 0..Len(Without(tags, kw[1]))}
    ELSE IF preserve_first
         THEN {<<Head(tags)>> \o rest : rest \in Shuffles(Tail(tags))}
         ELSE Shuffles(tags)

\* the scramble loop of scramble_tags over the records: the stores it can
\* leave. Only the images that show more than one tag are scrambled.
RECURSIVE ScrambledSts(_, _, _)
ScrambledSts(ts, filenames, preserve_first) ==
    IF filenames = <<>> THEN {ts}
    ELSE IF Len(GetTagsSt(ts, Head(filenames))) <= 1
    THEN ScrambledSts(ts, Tail(filenames), preserve_first)
    ELSE UNION {ScrambledSts(ApplyTagsSt(ts, Head(filenames), scrambled_tags),
                             Tail(filenames), preserve_first) :
                   scrambled_tags \in scramble_tag_list(ts.keyword_tag,
                                                        GetTagsSt(ts, Head(filenames)),
                                                        preserve_first)}

\* EventHandlers._auto_save_tags at the end of a handler that leaves the disk
\* dsk, the tag store ts and the records: tags.json goes to the tag manager's
\* project folder, the descriptions to the catalog's folder
AutoSaved(dsk, ts, records) ==
    IF tag_project_folder = None \/ dsk[tag_project_folder[1]].kind # "dir"
    THEN /\ images_data' = records
         /\ disk' = dsk
    ELSE /\ images_data' = ExportRecords(ts, records)
         /\ disk' = LET saved == [dsk EXCEPT ![tag_project_folder[1]] = SaveTagsJson(@, ts)]
                    IN  IF current_folder = None THEN saved
                        ELSE [saved EXCEPT ![current_folder[1]] =
                                 save_descriptions(@, ExportRecords(ts, records))]

\* the tags a row of the table shows
ShownTags == UNION {Range(get_tags_for_image(images_data[k].filename)) : k \in DOMAIN images_data}

on_tag_removed_from_image(filename, tag) ==
    /\ filename \in Range(FilenamesOf(images_data))
    /\ tag \in Range(get_tags_for_image(filename))
    /\ SetTags(RemoveTagFromImageSt(CurTags, filename, tag))
    /\ AutoSaved(disk, RemoveTagFromImageSt(CurTags, filename, tag), images_data)
    /\ args' = [filename |-> filename, tag |-> tag]
    /\ last' = "on_tag_removed_from_image"
    /\ UNCHANGED <<current_folder, gvars, pvars, result, bulk_calls>>

on_keyword_toggled(tag) ==
    /\ tag \in ShownTags
    /\ SetTags(ToggleKeywordSt(CurTags, tag))
    /\ AutoSaved(disk, ToggleKeywordSt(CurTags, tag), images_data)
    /\ last' = "on_keyword_toggled"
    /\ UNCHANGED <<current_folder, gvars, pvars, bvars>>

apply_tags_to_all(tags) ==
    /\ images_data # <<>>
    /\ \E ts \in AddTagsToImagesSts(CurTags, FilenamesOf(images_data), tags) :
           /\ SetTags(ts)
           /\ AutoSaved(disk, ts, images_data)
    /\ last' = "apply_tags_to_all"
    /\ UNCHANGED <<current_folder, gvars, pvars, bvars>>

\* EventHandlers.scramble_tags over all images, confirmed by the user
scramble_tags(preserve_first) ==
    /\ images_data # <<>>
    /\ \E k \in DOMAIN images_data : Len(get_tags_for_image(images_data[k].filename)) > 1
    /\ \E ts \in ScrambledSts(CurTags, FilenamesOf(images_data), preserve_first) :
           /\ SetTags(ts)
           /\ AutoSaved(disk, ts, images_data)
    /\ args' = [preserve_first |-> preserve_first]
    /\ last' = "scramble_tags"
    /\ UNCHANGED <<current_folder, gvars, pvars, result, bulk_calls>>

\* the files delete_selected_row removes from disk: the image and its sidecar
DeleteFiles(dsk, record) ==
    [dsk EXCEPT ![record.path[1]] =
        [@ EXCEPT !.images = DictDel(@, record.filename),
                  !.txt = DictDel(@, TxtNameOf(record.filename))]]

\* DataManager.find_image_by_row_index: the position of the record, from 1
RowRecord(row) ==
    CHOOSE i \in DOMAIN images_data :
        /\ images_data[i].row_index = row
        /\ \A j \in 1..(i - 1) : images_data[j].row_index # row

\* EventHandlers.delete_selected_row, confirmed by the user
delete_selected_row(current_row, from_disk) ==
    /\ current_row >= 0
    /\ \E i \in DOMAIN images_data : images_data[i].row_index = current_row
    /\ LET index == RowRecord(current_row) - 1
           img_data == images_data[RowRecord(current_row)]
           ts == [CurTags EXCEPT !.image_tags = DictDel(@, img_data.filename)]
           records == PopulateRows(RemoveImageAt(images_data, index))
       IN  /\ SetTags(ts)
           /\ IF from_disk
              THEN AutoSaved(DeleteFiles(disk, img_data), ts, records)
              ELSE /\ images_data' = records
                   /\ disk' = disk
    /\ last' = "delete_selected_row"
    /\ UNCHANGED <<current_folder, gvars, pvars, bvars>>

export_to_text_descriptions ==
    /\ images_data' = ExportRecords(CurTags, images_data)
    /\ last' = "export_to_text_descriptions"
    /\ UNCHANGED <<current_folder, NotCatalog>>

\* ---------------------------------------------------------- specifications
\* nothing called yet: no report, no project folder set
NoCall ==
    /\ last = "init"
    /\ result = <<>>
    /\ args = <<>>
    /\ bulk_calls = 0
    /\ tag_project_folder = None
    /\ group_project_folder = None

\* GroupManager.__init__
EmptyGroups ==
    /\ groups = <<>>
    /\ image_to_group = <<>>
    /\ next_gid = 0

\* TagManager.__init__
EmptyTags ==
    /\ available_tags = {}
    /\ tag_categories = <<>>
    /\ image_tags = <<>>
    /\ keyword_tag = None

\* DataManager.__init__
EmptyCatalog ==
    /\ images_data = <<>>
    /\ current_folder = None

FolderPaths == {"A", "B", "F", "M"}

\* a disk without folders, for the stores that are run without one
NoDisk == [p \in FolderPaths |-> NotADir("missing")]

GroupInit ==
    /\ EmptyGroups
    /\ EmptyTags
    /\ EmptyCatalog
    /\ disk = NoDisk
    /\ NoCall

\* The three membership operations of the group invariant.
MembershipNext ==
    \/ \E n \in GroupNames, fns \in FnLists : create_group(n, fns)
    \/ \E g \in GroupIds, fns \in FnLists : add_images_to_group(g, fns)
    \/ \E g \in GroupIds, fns \in FnLists : remove_images_from_group(g, fns)

SpecMembership == GroupInit /\ [][MembershipNext]_vars

GroupNext ==
    \/ MembershipNext
    \/ \E o \in FileNames, n \in FileNames : rename_image(o, n)

SpecGroup == GroupInit /\ [][GroupNext]_vars

\* The tag store driven through its public operations.
TagNext ==
    \/ \E t \in TagArgs : add_tag(t)
    \/ \E t \in TagArgs : remove_tag(t)
    \/ \E f \in FileNames, ts \in TagLists : apply_tags_to_image(f, ts)
    \/ \E f \in FileNames, ts \in AddTagLists : add_tags_to_image(f, ts)
    \/ \E f \in FileNames, t \in TagArgs : remove_tag_from_image(f, t)
    \/ \E t \in TagArgs : set_keyword_tag(t)
    \/ \E t \in TagArgs : toggle_keyword_tag(t)
    \/ clear_keyword_tag

SpecTag == GroupInit /\ [][TagNext]_vars

\* The per-image tag operations alone, from the empty tag store.
TagEditNext ==
    \/ \E f \in FileNames, ts \in EditLists : apply_tags_to_image(f, ts)
    \/ \E f \in FileNames, ts \in AddTagLists : add_tags_to_image(f, ts)
    \/ \E f \in FileNames, t \in TagArgs : remove_tag_from_image(f, t)

SpecTagEdit == GroupInit /\ [][TagEditNext]_vars

\* The tag lists of the images under renames of the images.
TagRenameNext ==
    \/ \E f \in FileNames, ts \in EditLists : apply_tags_to_image(f, ts)
    \/ \E old_filename, new_filename \in FileNames :
           tag_rename_image(old_filename, new_filename)

SpecTagRename == GroupInit /\ [][TagRenameNext]_vars

\* The catalog over a disk that holds folder A (any of the image files below,
\* with or without a sidecar or a descriptions file), the folder B without
\* images, the plain file F and nothing at M.
ImageUniverse == {<<"a", ".jpg">>, <<"b", ".jpg">>, <<"B", ".JPG">>, <<"p", "_", "0", "0", "1", ".jpg">>}
DescTexts == {<<"a">>, <<" ", "b", ",", " ", "a">>}
Keywords == {<<"b">>, <<" ">>}

SameContent(S) == [f \in S |-> f]

CatalogDisks ==
    {[A |-> DirOf(SameContent(imgs), txt, NoJson, dj),
      B |-> DirOf(<<>>, <<>>, NoJson, NoJson),
      F |-> NotADir("file"),
      M |-> NotADir("missing")] :
        imgs \in SUBSET ImageUniverse,
        txt \in {<<>>} \cup {[n \in {<<"a", ".txt">>} |-> t] : t \in DescTexts},
        dj \in {NoJson,
                JsonOf("list", <<[fileName |-> <<"b", ".jpg">>, description |-> <<"b">>]>>)}}

CatalogInit ==
    /\ EmptyGroups
    /\ EmptyTags
    /\ EmptyCatalog
    /\ disk \in CatalogDisks
    /\ NoCall

CatalogNext ==
    \/ \E p \in FolderPaths : load_images_from_folder(p)
    \/ \E i \in -1..Len(images_data) : catalog_remove_image(i)
    \/ \E i \in -1..Len(images_data), t \in DescTexts : update_description(i, t)
    \/ \E k \in Keywords : append_keyword_to_all(k)
    \/ populate_table

SpecCatalog == CatalogInit /\ [][CatalogNext]_vars

\* The mass rename over folder A: any of the image files below, sidecars for
\* some of them, and the two JSON files both present or both absent.
RenameUniverse ==
    {<<"a", ".jpg">>, <<"b", ".jpg">>, <<"p", "_", "0", "0", "2", ".jpg">>}
Prefixes == {<<"p">>}

SavedTags == [available_tags |-> {<<"a">>, <<"b">>},
              tag_categories |-> [c \in {"general"} |-> <<<<"a">>, <<"b">>>>],
              image_tags |-> [f \in {<<"a", ".jpg">>} |-> <<<<"b">>, <<"a">>>>],
              keyword_tag |-> None]

RenameDisks ==
    {[A |-> DirOf(SameContent(imgs), SameContent(txt), json[1], json[2]),
      B |-> DirOf(<<>>, <<>>, NoJson, NoJson),
      F |-> NotADir("file"),
      M |-> NotADir("missing")] :
        imgs \in SUBSET RenameUniverse,
        txt \in SUBSET {<<"a", ".txt">>, <<"p", "_", "0", "0", "1", ".txt">>},
        json \in {<<NoJson, NoJson>>,
                  <<JsonOf("dict", SavedTags),
                    JsonOf("list", <<[fileName |-> <<"a", ".jpg">>, description |-> <<"a">>]>>)>>}}

\* the scopes a caller passes: images of the folder, none twice
Scopes(d) ==
    {None} \cup
    {Some(q) : q \in {x \in SeqsUpTo(DOMAIN d.images, MaxScope) :
                         \A i, j \in DOMAIN x : i # j => x[i] # x[j]}}

RenameInit ==
    /\ EmptyGroups
    /\ EmptyTags
    /\ EmptyCatalog
    /\ disk \in RenameDisks
    /\ NoCall

RenameNext ==
    \E prefix \in Prefixes, scope \in Scopes(disk["A"]), scramble_order \in BOOLEAN,
       cancel_at \in 0..MaxScope, posix \in BOOLEAN :
        mass_rename_images("A", prefix, scope, scramble_order, cancel_at, posix)

SpecRename == RenameInit /\ [][RenameNext]_vars

\* The application over two folders: A holds a.jpg, maybe b.jpg, maybe a
\* sidecar for a.jpg, maybe tags.json and the descriptions file; B holds
\* b.jpg only.
AppSidecars == {<<"a">>, <<"b", ",", " ", " ", "a", " ">>}
AppPrefixes == {<<"p">>, <<" ">>}

AppDisks ==
    {[A |-> DirOf(SameContent(imgs), txt, tj, dj),
      B |-> DirOf(SameContent({<<"b", ".jpg">>}), <<>>, NoJson, NoJson),
      F |-> NotADir("file"),
      M |-> NotADir("missing")] :
        imgs \in {{<<"a", ".jpg">>}, {<<"a", ".jpg">>, <<"b", ".jpg">>}},
        txt \in {<<>>} \cup {[f \in {<<"a", ".txt">>} |-> t] : t \in AppSidecars},
        tj \in {NoJson, JsonOf("dict", SavedTags)},
        dj \in {NoJson,
                JsonOf("list", <<[fileName |-> <<"b", ".jpg">>, description |-> <<"a">>]>>)}}

\* the rows a user selects: rows of the table, none twice
RowSelections ==
    {None} \cup
    {Some(q) : q \in {x \in SeqsUpTo(0..(Len(images_data) - 1), MaxScope) :
                         \A i, j \in DOMAIN x : i # j => x[i] # x[j]}}

AppInit ==
    /\ EmptyGroups
    /\ EmptyTags
    /\ EmptyCatalog
    /\ disk \in AppDisks
    /\ NoCall

AppNext ==
    \/ \E p \in FolderPaths : select_folder(p)
    \/ refresh_gallery
    \/ \E prefix \in AppPrefixes, rows \in RowSelections, cancel_at \in 0..MaxScope,
          posix \in BOOLEAN :
           EventHandlers_mass_rename_images(prefix, rows, cancel_at, posix)
    \/ \E t \in {<<"b">>} : set_keyword_tag(t)

SpecApp == AppInit /\ [][AppNext]_vars

\* The two stores and their project folders: tags and groups are made in
\* memory, saved to the project folder, and the project folder is changed.
ProjectDisks ==
    {[A |-> DirOf(SameContent({<<"a", ".jpg">>}), <<>>, tj, NoJson),
      B |-> DirOf(SameContent({<<"b", ".jpg">>}), <<>>, NoJson, NoJson),
      F |-> NotADir("file"),
      M |-> NotADir("missing")] :
        tj \in {NoJson, JsonOf("dict", SavedTags)}}

ProjectFolders == {"A", "B"}

ProjectInit ==
    /\ EmptyGroups
    /\ EmptyTags
    /\ EmptyCatalog
    /\ disk \in ProjectDisks
    /\ NoCall

ProjectNext ==
    \/ \E p \in ProjectFolders : tag_set_project_folder(p)
    \/ \E p \in ProjectFolders : group_set_project_folder(p)
    \/ save_tags_to_project
    \/ save_groups_to_project
    \/ \E n \in {<<"a">>}, fns \in {<<<<"a", ".jpg">>>>} : create_group(n, fns)
    \/ \E f \in {<<"b", ".jpg">>}, ts \in {<<<<"b">>>>} : apply_tags_to_image(f, ts)
    \/ \E t \in {<<"b">>} : set_keyword_tag(t)

SpecProject == ProjectInit /\ [][ProjectNext]_vars

\* The tag handlers over a loaded folder: A holds a.jpg, maybe b.jpg, maybe
\* a sidecar for a.jpg, maybe tags.json.
HandlerTagLists == {<<<<"a">>>>, <<<<"b">>>>}

HandlerDisks ==
    {[A |-> DirOf(SameContent(imgs), txt, tj, NoJson),
      B |-> DirOf(<<>>, <<>>, NoJson, NoJson),
      F |-> NotADir("file"),
      M |-> NotADir("missing")] :
        imgs \in {{<<"a", ".jpg">>}, {<<"a", ".jpg">>, <<"b", ".jpg">>}},
        txt \in {<<>>} \cup {[f \in {<<"a", ".txt">>} |-> t] : t \in AppSidecars},
        tj \in {NoJson, JsonOf("dict", SavedTags)}}

HandlerInit ==
    /\ EmptyGroups
    /\ EmptyTags
    /\ EmptyCatalog
    /\ disk \in HandlerDisks
    /\ NoCall

HandlerNext ==
    \/ \E p \in FolderPaths : select_folder(p)
    \/ \E f \in FileNames, t \in {<<"a">>, <<"b">>} : on_tag_removed_from_image(f, t)
    \/ \E t \in {<<"a">>, <<"b">>} : on_keyword_toggled(t)
    \/ \E ts \in HandlerTagLists : apply_tags_to_all(ts)
    \/ \E preserve_first \in BOOLEAN : scramble_tags(preserve_first)
    \/ \E row \in -1..Len(images_data), from_disk \in BOOLEAN :
           delete_selected_row(row, from_disk)
    \/ export_to_text_descriptions

SpecHandlers == HandlerInit /\ [][HandlerNext]_vars

\* The round trip between tag lists and descriptions: tags with a space, a
\* run of spaces or a separator inside, any keyword.
RoundTripTags == {<<"a">>, <<"b">>, <<"a", " ", "b">>, <<"a", " ", " ", "b">>, <<"a", ",", "b">>}
RoundTripFiles == {<<"a", ".jpg">>}
RoundTripLists == SeqsUpTo(RoundTripTags, MaxRoundTripList)

RoundTripNext ==
    \/ \E f \in RoundTripFiles, ts \in RoundTripLists : apply_tags_to_image(f, ts)
    \/ \E t \in {<<"a">>, <<"b">>} : toggle_keyword_tag(t)
    \/ \E f \in RoundTripFiles : round_trip(f)

SpecRoundTrip == GroupInit /\ [][RoundTripNext]_vars

\* The bulk operations of the image processor on a folder of images of
\* several sizes, some with a sidecar, with or without the project's JSON
\* files; the output of fix_images is the folder itself, another folder, a
\* path that does not exist yet or a plain file.
ImageSizes == {Corrupt, <<256, 256>>, <<512, 512>>, <<1024, 512>>}
TargetSizes == {512, 1024}
BulkImages == {<<"a", ".jpg">>, <<"b", ".jpg">>}

BulkDisks ==
    {[A |-> DirOf(imgs, SameContent(txt), json[1], json[2]),
      B |-> DirOf(<<>>, <<>>, NoJson, NoJson),
      F |-> NotADir("file"),
      M |-> NotADir("missing")] :
        imgs \in UNION {[S -> ImageSizes] : S \in SUBSET BulkImages},
        txt \in SUBSET {<<"a", ".txt">>},
        json \in {<<NoJson, NoJson>>,
                  <<JsonOf("dict", SavedTags),
                    JsonOf("list", <<[fileName |-> <<"a", ".jpg">>, description |-> <<"a">>]>>)>>}}

BulkInit ==
    /\ EmptyGroups
    /\ EmptyTags
    /\ EmptyCatalog
    /\ disk \in BulkDisks
    /\ NoCall

BulkNext ==
    \/ \E target_size \in TargetSizes, keep_aspect \in BOOLEAN,
          output_folder \in {"A", "B", "F", "M"}, resize_small_images \in BOOLEAN,
          scope \in Scopes(disk["A"]), cancel_at \in 0..MaxScope :
           fix_images("A", target_size, keep_aspect, output_folder, resize_small_images,
                      scope, cancel_at)
    \/ \E prefix \in Prefixes, scope \in Scopes(disk["A"]), scramble_order \in BOOLEAN,
          cancel_at \in 0..MaxScope, posix \in BOOLEAN :
           mass_rename_images("A", prefix, scope, scramble_order, cancel_at, posix)

SpecBulk == BulkInit /\ [][BulkNext]_vars

\* Migration of free-text descriptions: a loaded folder whose descriptions are
\* edited to blank, separator-only and tag-list texts, images with and without
\* tags of their own.
MigrateTexts == {<<>>, <<" ">>, <<",">>, <<"a">>, <<"b", ",", " ", "a">>}

MigrateDisks ==
    {[A |-> DirOf(SameContent(imgs), <<>>, NoJson, NoJson),
      B |-> DirOf(<<>>, <<>>, NoJson, NoJson),
      F |-> NotADir("file"),
      M |-> NotADir("missing")] : imgs \in SUBSET FileNames}

MigrateInit ==
    /\ EmptyGroups
    /\ EmptyTags
    /\ EmptyCatalog
    /\ disk \in MigrateDisks
    /\ NoCall

MigrateNext ==
    \/ load_images_from_folder("A")
    \/ \E i \in 0..(Len(images_data) - 1), t \in MigrateTexts : update_description(i, t)
    \/ \E f \in FileNames : apply_tags_to_image(f, <<<<"b">>>>)
    \/ migrate_from_text_descriptions

SpecMigrate == MigrateInit /\ [][MigrateNext]_vars

\* The group store with all its operations; folder A holds a groups.json that
\* is not the saved store (a list), so that opening it empties the groups and
\* keeps image_to_group.
GroupOpsDisk ==
    [NoDisk EXCEPT !["A"] = [DirOf(<<>>, <<>>, NoJson, NoJson) EXCEPT
                                !.groups_json = JsonOf("keys", <<>>)]]

GroupOpsInit ==
    /\ EmptyGroups
    /\ EmptyTags
    /\ EmptyCatalog
    /\ disk = GroupOpsDisk
    /\ NoCall

GroupOpsLists ==
    {<<>>, <<<<"a", ".jpg">>>>, <<<<"b", ".jpg">>>>,
     <<<<"a", ".jpg">>, <<"a", ".jpg">>>>, <<<<"b", ".jpg">>, <<"a", ".jpg">>>>}

GroupOpsNext ==
    \/ \E n \in GroupNames, fns \in GroupOpsLists : create_group(n, fns)
    \/ \E g \in GroupIds : delete_group(g)
    \/ \E f \in FileNames : group_remove_image(f)
    \/ \E g \in GroupIds : toggle_group_expansion(g)
    \/ group_set_project_folder("A")
    \/ call_validate_consistency

SpecGroupOps == GroupOpsInit /\ [][GroupOpsNext]_vars

\* Duplication of the images of a folder, some of them unreadable, with or
\* without a sidecar and the project's JSON files, into the folder itself,
\* another folder, a path that does not exist yet or a plain file.
DupSizes == {Corrupt, <<1024, 512>>}
DupDescriptions ==
    JsonOf("list", <<[fileName |-> <<"a", ".jpg">>, description |-> <<"a">>],
                     [fileName |-> <<"b", ".jpg">>, description |-> <<"b">>]>>)
DupTransformations == {{}, {"rot180"}, {"flip", "rot90r"}}

DupDisks ==
    {[A |-> DirOf(imgs, SameContent(txt), json[1], json[2]),
      B |-> DirOf(<<>>, <<>>, NoJson, NoJson),
      F |-> NotADir("file"),
      M |-> NotADir("missing")] :
        imgs \in UNION {[S -> DupSizes] : S \in SUBSET BulkImages},
        txt \in SUBSET {<<"a", ".txt">>},
        json \in {<<NoJson, NoJson>>, <<NoJson, DupDescriptions>>,
                  <<JsonOf("dict", SavedTags), DupDescriptions>>}}

DupInit ==
    /\ EmptyGroups
    /\ EmptyTags
    /\ EmptyCatalog
    /\ disk \in DupDisks
    /\ NoCall

\* the scopes and the cancel points of the calls: the whole folder (while it
\* holds no more than MaxScope images) or a selection; no cancel, or a cancel
\* after the first image
DupScopes ==
    {None, Some(<<<<"a", ".jpg">>>>), Some(<<<<"b", ".jpg">>>>),
     Some(<<<<"b", ".jpg">>, <<"a", ".jpg">>>>)}
DupCancels == {0, 2}

DupNext ==
    \E output_folder \in {"A", "B", "F", "M"}, transformations \in DupTransformations,
       scope \in DupScopes, cancel_at \in DupCancels :
        /\ scope = None => Cardinality(DOMAIN disk["A"].images) <= MaxScope
        /\ create_duplicates("A", output_folder, transformations, scope, cancel_at)

SpecDuplicates == DupInit /\ [][DupNext]_vars

\* Scrambling the tags of the one image of a folder, after tag lists were
\* applied to it and a keyword was chosen.
ScrambleLists ==
    {<<<<"a">>, <<"b">>>>, <<<<"b">>, <<"a">>, <<"b">>>>, <<<<"b">>, <<"b">>, <<"a">>>>}

ScrambleInit ==
    /\ EmptyGroups
    /\ EmptyTags
    /\ EmptyCatalog
    /\ disk = [A |-> DirOf(SameContent({<<"a", ".jpg">>}), <<>>, NoJson, NoJson),
               B |-> DirOf(<<>>, <<>>, NoJson, NoJson),
               F |-> NotADir("file"),
               M |-> NotADir("missing")]
    /\ NoCall

ScrambleNext ==
    \/ select_folder("A")
    \/ \E ts \in ScrambleLists : apply_tags_to_image(<<"a", ".jpg">>, ts)
    \/ \E t \in {<<"a">>, <<"b">>} : on_keyword_toggled(t)
    \/ \E preserve_first \in BOOLEAN : scramble_tags(preserve_first)

SpecScramble == ScrambleInit /\ [][ScrambleNext]_vars

\* Loading a folder whose images have a sidecar or not, an entry in the
\* descriptions JSON or not, beside a tags.json or not.
LoadDisks ==
    {[A |-> DirOf(SameContent(imgs), txt, tj, dj),
      B |-> DirOf(<<>>, <<>>, NoJson, NoJson),
      F |-> NotADir("file"),
      M |-> NotADir("missing")] :
        imgs \in SUBSET {<<"a", ".jpg">>, <<"b", ".jpg">>},
        txt \in {<<>>} \cup {[n \in {<<"a", ".txt">>} |-> t] : t \in DescTexts},
        tj \in {NoJson, JsonOf("dict", SavedTags)},
        dj \in {NoJson,
                JsonOf("list", <<[fileName |-> <<"b", ".jpg">>, description |-> <<"b">>]>>),
                JsonOf("list", <<[fileName |-> <<"a", ".jpg">>, description |-> <<"b">>],
                                 [fileName |-> <<"a", ".jpg">>, description |-> <<"a">>]>>)}}

LoadInit ==
    /\ EmptyGroups
    /\ EmptyTags
    /\ EmptyCatalog
    /\ disk \in LoadDisks
    /\ NoCall

LoadNext == \E p \in FolderPaths : load_images_from_folder(p)

SpecLoad == LoadInit /\ [][LoadNext]_vars

\* ------------------------------------------------------------------ claims
GroupsOfIn(G, f) == {g \in DOMAIN G : f \in Range(G[g].image_filenames)}
GroupsOf(f) == GroupsOfIn(groups, f)

\* C1: after any sequence of create_group, add_images_to_group and
\* remove_images_from_group calls from the empty store (filename lists may
\* repeat a filename), validate_consistency() is empty and every filename is
\* in the member list of at most one group.
C1_GroupInvariant ==
    /\ validate_consistency = {}
    /\ \A f \in FileNames : Cardinality(GroupsOf(f)) <= 1

\* C8: from a consistent store (no member list repeating a filename),
\* rename_image(old, new) with old a member of group g and new another
\* filename, grouped or not, leaves new in g at the position old had, old in no
\* group and not in image_to_group, new in no other group, and the store
\* consistent.
NoRepeatedMember ==
    \A g \in DOMAIN groups :
        Cardinality(Range(groups[g].image_filenames)) = Len(groups[g].image_filenames)

C8_RenameKeepsMembership ==
    [][\A old, new \in FileNames :
        (/\ last' = "rename_image"
         /\ Store(groups', image_to_group') =
                RenameImageSt(Store(groups, image_to_group), old, new)
         /\ old # new
         /\ validate_consistency = {}
         /\ NoRepeatedMember
         /\ old \in DOMAIN image_to_group)
        => LET g == image_to_group[old]
           IN  /\ groups'[g].image_filenames[IndexOf(groups[g].image_filenames, old)] = new
               /\ GroupsOfIn(groups', old) = {}
               /\ old \notin DOMAIN image_to_group'
               /\ GroupsOfIn(groups', new) = {g}
               /\ validate_consistency' = {}]_vars

\* C2: in every state reached from the empty tag store through its public
\* operations, every tag of every image's tag list, and the keyword tag when
\* one is set, is in available_tags.
C2_TagsRegistered ==
    /\ \A f \in DOMAIN image_tags : Range(image_tags[f]) \subseteq available_tags
    /\ keyword_tag # None => keyword_tag[1] \in available_tags

\* C5: after remove_tag(t), t is not in available_tags, t is in no image's tag
\* list (also when a list held t more than once), keyword_tag is not t, and
\* every image keeps its other tags in the same relative order.
C5_RemoveTagCascades ==
    [][\A t \in TagArgs :
        (last' = "remove_tag" /\ CurTags' = RemoveTagSt(CurTags, t))
        => /\ t \notin available_tags'
           /\ keyword_tag' # Some(t)
           /\ DOMAIN image_tags' = DOMAIN image_tags
           /\ \A f \in DOMAIN image_tags :
                  /\ t \notin Range(image_tags'[f])
                  /\ image_tags'[f] = Without(image_tags[f], t)]_vars

\* C6: immediately after set_keyword_tag(t), in any reachable tag store, every
\* image whose stored tag list includes t has t as the first element of
\* get_tags_for_image.
C6_KeywordFirst ==
    [][\A t \in TagArgs :
        (last' = "set_keyword_tag" /\ CurTags' = SetKeywordSt(CurTags, t))
        => \A f \in DOMAIN image_tags' :
               t \in Range(image_tags'[f]) => GetTagsSt(CurTags', f)[1] = t]_vars

Collides(d, call) ==
    \E i \in DOMAIN call.image_files :
        /\ NewFilename(call.prefix, call.image_files, call.scramble_chars, i) \in ListDir(d)
        /\ NewFilename(call.prefix, call.image_files, call.scramble_chars, i)
               \notin Range(call.image_files)

\* C3: when a new image filename proposed by mass_rename_images is the name of
\* an existing file of the folder that is not renamed in this batch, the call
\* returns an error and leaves the folder as it was: no image, no sidecar is
\* renamed and no JSON file is rewritten.
C3_PreflightAtomic ==
    [][(last' = "mass_rename_images" /\ Collides(disk["A"], args'))
          => (result'.error /\ disk' = disk)]_vars

\* a batch of two was refused because of its second new name only
C3_Witness ==
    /\ last = "mass_rename_images"
    /\ Collides(disk["A"], args)
    /\ Len(args.image_files) = MaxScope
    /\ NewFilename(args.prefix, args.image_files, args.scramble_chars, 1) \notin ListDir(disk["A"])
    /\ disk["A"].tags_json.kind = "dict"
    /\ disk["A"].txt # <<>>
    /\ result.error


\* the new name the finished rename gave the i-th image of the batch
RenamedTo(call, i) == NewFilename(call.prefix, call.image_files, call.scramble_chars, i)

\* the tag lists of tags.json, none when it is not the saved tag store
JsonImageTags(json) == IF json.kind = "dict" THEN json.data.image_tags ELSE <<>>

\* C4: after a mass rename that renamed its whole batch, what was recorded for
\* an old filename is recorded for the new one: its tag list in tags.json, its
\* entry in the descriptions file and its tag list in the tag store after the
\* refresh; tags.json keeps its other content and the descriptions file its
\* other entries.
C4_RenameCarriesMetadata ==
    [][(/\ last' = "EventHandlers.mass_rename_images"
        /\ ~result'.error
        /\ result'.errors = <<>>
        /\ result'.renamed_images = result'.total_images)
       => LET old_dir == disk[current_folder[1]]
              new_dir == disk'[current_folder[1]]
          IN  /\ \A i \in DOMAIN args'.image_files :
                     /\ args'.image_files[i] \in DOMAIN JsonImageTags(old_dir.tags_json)
                            => /\ RenamedTo(args', i) \in DOMAIN JsonImageTags(new_dir.tags_json)
                               /\ JsonImageTags(new_dir.tags_json)[RenamedTo(args', i)]
                                      = JsonImageTags(old_dir.tags_json)[args'.image_files[i]]
                     /\ args'.image_files[i] \in DOMAIN image_tags
                            => /\ RenamedTo(args', i) \in DOMAIN image_tags'
                               /\ image_tags'[RenamedTo(args', i)] = image_tags[args'.image_files[i]]
                     /\ \A k \in DOMAIN old_dir.desc_json.data :
                            old_dir.desc_json.data[k].fileName = args'.image_files[i]
                                => new_dir.desc_json.data[k] =
                                       [fileName |-> RenamedTo(args', i),
                                        description |-> old_dir.desc_json.data[k].description]
              /\ old_dir.tags_json.kind = "dict"
                     => /\ new_dir.tags_json.kind = "dict"
                        /\ new_dir.tags_json.data.available_tags = old_dir.tags_json.data.available_tags
                        /\ new_dir.tags_json.data.tag_categories = old_dir.tags_json.data.tag_categories
                        /\ new_dir.tags_json.data.keyword_tag = old_dir.tags_json.data.keyword_tag
              /\ new_dir.desc_json.kind = old_dir.desc_json.kind
              /\ DOMAIN new_dir.desc_json.data = DOMAIN old_dir.desc_json.data
              /\ \A k \in DOMAIN old_dir.desc_json.data :
                     old_dir.desc_json.data[k].fileName \notin Range(args'.image_files)
                         => new_dir.desc_json.data[k] = old_dir.desc_json.data[k]]_vars

\* C9: after set_project_folder on a folder without tags.json the tag store
\* holds no tag, no tag assignment and no keyword, and after
\* set_project_folder on a folder without groups.json the group store holds
\* no group: nothing of the folder opened before stays in memory.
C9_NoStaleState ==
    [][/\ \A p \in ProjectFolders :
              (/\ last' = "TagManager.set_project_folder"
               /\ tag_project_folder' = Some(p)
               /\ disk[p].tags_json.kind = "absent")
              => CurTags' = NoTags
       /\ \A p \in ProjectFolders :
              (/\ last' = "GroupManager.set_project_folder"
               /\ group_project_folder' = Some(p)
               /\ disk[p].groups_json.kind = "absent")
              => Store(groups', image_to_group') = NoGroups]_vars

\* C10: when the folder that select_folder opens holds tags.json, the tag
\* lists in memory afterwards are the ones tags.json stores, in the stored
\* order, whatever the .txt sidecars and the descriptions file say.
C10_TagsJsonWins ==
    [][\A p \in FolderPaths :
          (/\ last' = "select_folder"
           /\ LoadSucceeds(p)
           /\ current_folder' = Some(p)
           /\ tag_project_folder' = Some(p)
           /\ disk[p].tags_json.kind = "dict")
          => image_tags' = disk[p].tags_json.data.image_tags]_vars


\* the stored tag list of an image, empty when it has none
StoredTags(T, f) == IF f \in DOMAIN T THEN T[f] ELSE <<>>

\* C11: after export_to_text_descriptions every record's description is the
\* ", "-joined presentation-order tag list of its image (keyword first), and
\* the empty string when the image has no tags, whatever it was before.
C11_ExportWritesTags ==
    [][last' = "export_to_text_descriptions"
          => \A k \in DOMAIN images_data' :
                 images_data'[k].description =
                     JoinTags(get_tags_for_image(images_data'[k].filename))]_vars

\* the handlers that end with an auto-save whatever their arguments
AutoSavingHandlers ==
    {"on_tag_removed_from_image", "on_keyword_toggled", "apply_tags_to_all", "scramble_tags"}

\* C12: after the auto-save of a handler no image of the catalog whose tag
\* list is empty has a .txt sidecar on disk.
C12_NoSidecarWithoutTags ==
    [][(last' \in AutoSavingHandlers /\ tag_project_folder # None /\ current_folder # None)
          => \A k \in DOMAIN images_data' :
                 StoredTags(image_tags', images_data'[k].filename) = <<>>
                     => TxtNameOf(images_data'[k].filename)
                            \notin DOMAIN disk'[current_folder[1]].txt]_vars

\* the keyword of tags.json, none when the file is not the saved tag store
JsonKeyword(json) == IF json.kind = "dict" THEN json.data.keyword_tag ELSE None

\* C14: after every handler that changes the tag store or the catalog,
\* tags.json of the project folder holds the image-tag assignments and the
\* keyword of the tag store in memory (a missing tags.json holds none).
C14_TagsJsonFollowsMemory ==
    [][(last' \in AutoSavingHandlers \cup {"delete_selected_row"} /\ tag_project_folder # None)
          => /\ JsonImageTags(disk'[tag_project_folder[1]].tags_json) = image_tags'
             /\ JsonKeyword(disk'[tag_project_folder[1]].tags_json) = keyword_tag']_vars


\* C13: formatting the tags of an image as a description, parsing the
\* description and applying the parsed list leaves the image with the same
\* set of tags.
C13_RoundTripKeepsTags ==
    [][last' = "round_trip"
          => \A f \in RoundTripFiles :
                 Range(StoredTags(image_tags', f)) = Range(StoredTags(image_tags, f))]_vars


\* C17: set_keyword_tag(t), or toggle_keyword_tag(t) for t that is not the
\* current keyword, with t not in available_tags leaves the keyword and the
\* rest of the tag store as they were.
C17_UnknownKeywordIgnored ==
    [][\A t \in TagArgs :
        (/\ t \notin available_tags
         /\ \/ last' = "set_keyword_tag" /\ CurTags' = SetKeywordSt(CurTags, t)
            \/ /\ last' = "toggle_keyword_tag"
               /\ keyword_tag # Some(t)
               /\ CurTags' = ToggleKeywordSt(CurTags, t))
        => CurTags' = CurTags]_vars

\* the number of times x occurs in the list l
Count(l, x) == Cardinality({i \in DOMAIN l : l[i] = x})

\* C18: get_tags_for_image(f) is the stored list of f when no keyword is set
\* or the keyword is not in the list; otherwise it holds the same tags the same
\* number of times, the keyword first and the others in their stored order.
C18_PresentationOrder ==
    \A f \in DOMAIN image_tags :
        LET stored == image_tags[f]
            shown == get_tags_for_image(f)
        IN  IF keyword_tag = None \/ keyword_tag[1] \notin Range(stored)
            THEN shown = stored
            ELSE /\ shown[1] = keyword_tag[1]
                 /\ \A x \in Range(stored) \cup Range(shown) : Count(shown, x) = Count(stored, x)
                 /\ Without(shown, keyword_tag[1]) = Without(stored, keyword_tag[1])

\* the entries of a tag list stripped of surrounding blanks, blank entries left out
Kept(T) == SelectSeq([i \in DOMAIN T |-> Strip(T[i])], LAMBDA x : x # <<>>)

OthersUnchanged(f) ==
    /\ DOMAIN image_tags' \ {f} = DOMAIN image_tags \ {f}
    /\ \A g \in DOMAIN image_tags \ {f} : image_tags'[g] = image_tags[g]

\* C19 as stated: after apply_tags_to_image(f, T) the stored list of f is T
\* itself, every element of T is in available_tags and no other image's list
\* has changed.
C19_ApplyStoresVerbatim ==
    [][\A f \in FileNames, T \in EditLists :
        (last' = "apply_tags_to_image" /\ CurTags' = ApplyTagsSt(CurTags, f, T))
        => /\ StoredTags(image_tags', f) = T
           /\ Range(T) \subseteq available_tags'
           /\ OthersUnchanged(f)]_vars

\* C19 amended: after apply_tags_to_image(f, T) the stored list of f is the
\* entries of T stripped of surrounding whitespace, blank entries dropped, in
\* the given order; every stored tag is in available_tags and no other image's
\* list has changed.
C19_ApplyStoresStripped ==
    [][\A f \in FileNames, T \in EditLists :
        (last' = "apply_tags_to_image" /\ CurTags' = ApplyTagsSt(CurTags, f, T))
        => /\ f \in DOMAIN image_tags'
           /\ image_tags'[f] = Kept(T)
           /\ Range(Kept(T)) \subseteq available_tags'
           /\ OthersUnchanged(f)]_vars

\* an apply that replaced a longer list by a stripped tag, next to another
\* image that has tags
C19_Witness ==
    /\ last = "apply_tags_to_image"
    /\ \E f, g \in DOMAIN image_tags :
           /\ f # g
           /\ image_tags[f] = <<<<"b">>, <<"a">>>>
           /\ image_tags[g] # <<>>

NoRepeats(l) == Cardinality(Range(l)) = Len(l)

\* the stores add_tags_to_image(f, T) can leave
AddTagsResults(f, T) ==
    {ApplyTagsSt(CurTags, f, q) : q \in Orderings(MergedTagSet(CurTags, f, T))}

\* C20 as stated: after add_tags_to_image(f, T) the set of tags of f is the
\* union of the set it had and T, no tag is twice in the stored list and no
\* other image's list has changed.
C20_AddIsUnion ==
    [][\A f \in FileNames, T \in AddTagLists :
        (last' = "add_tags_to_image" /\ CurTags' \in AddTagsResults(f, T))
        => /\ Range(StoredTags(image_tags', f)) = Range(StoredTags(image_tags, f)) \cup Range(T)
           /\ NoRepeats(StoredTags(image_tags', f))
           /\ OthersUnchanged(f)]_vars

\* C20 amended: after add_tags_to_image(f, T) the set of tags of f is the
\* union of the set it had and the entries of T stripped of surrounding
\* whitespace, blank entries left out; no tag is twice in the stored list and
\* no other image's list has changed.
C20_AddIsUnionOfStripped ==
    [][\A f \in FileNames, T \in AddTagLists :
        (last' = "add_tags_to_image" /\ CurTags' \in AddTagsResults(f, T))
        => /\ Range(StoredTags(image_tags', f))
                  = Range(StoredTags(image_tags, f)) \cup Range(Kept(T))
           /\ NoRepeats(StoredTags(image_tags', f))
           /\ OthersUnchanged(f)]_vars

\* an add that merged a new tag into a list, next to another image with tags
C20_Witness ==
    /\ last = "add_tags_to_image"
    /\ \E f, g \in DOMAIN image_tags :
           /\ f # g
           /\ Range(image_tags[f]) = {<<"a">>, <<"b">>}
           /\ Len(image_tags[f]) = 2
           /\ image_tags[g] # <<>>


\* C16: a fix_images run that is not cancelled counts every image of its
\* batch in exactly one of processed, skipped and invalid:
\* processed + skipped + the number of invalid entries is the total, the total
\* is the size of the batch and no image is listed as invalid twice.
C16_EveryImageCountedOnce ==
    [][(/\ last' = "fix_images"
        /\ ~result'.error
        /\ args'.cancel_at \notin DOMAIN args'.image_files)
       => /\ result'.total = Len(args'.image_files)
          /\ result'.processed + result'.skipped + Len(result'.invalid) = result'.total
          /\ NoRepeats(result'.invalid)
          /\ Range(result'.invalid) \subseteq Range(args'.image_files)]_vars

\* the content of a file of a name -> content mapping, None when there is none
FileAt(files, name) == IF name \in DOMAIN files THEN Some(files[name]) ELSE None

\* what a folder records for an image: its file, its sidecar, its tag list in
\* tags.json and its entries in the descriptions file
RecordedFor(d, f) ==
    [image |-> FileAt(d.images, f),
     txt |-> FileAt(d.txt, TxtNameOf(f)),
     tags_kind |-> d.tags_json.kind,
     tags |-> IF d.tags_json.kind = "dict" THEN FileAt(d.tags_json.data.image_tags, f)
              ELSE None,
     descriptions |-> IF d.desc_json.kind = "list"
                      THEN {e \in Range(d.desc_json.data) : e.fileName = f}
                      ELSE {}]

\* a cancelled mass rename: the step is one that a cancel before item k leaves
CancelledRename(k, posix) ==
    LET out == MassRename(disk["A"], args'.prefix, Some(args'.image_files),
                          args'.scramble_chars, k, posix)
    IN  /\ last' = "mass_rename_images"
        /\ ~result'.error
        /\ k \in DOMAIN args'.image_files
        /\ disk' = [disk EXCEPT !["A"] = out.dir]
        /\ result' = out.report

\* C15: when a bulk operation is cancelled before item k, what the folders
\* record for the items k and later is as before, the items before k stay
\* applied and the report counts the items before k only.
C15_CancelStopsCleanly ==
    [][/\ \A k \in 1..MaxScope, posix \in BOOLEAN :
            CancelledRename(k, posix)
            => /\ \A i \in k..Len(args'.image_files) :
                      RecordedFor(disk'["A"], args'.image_files[i])
                          = RecordedFor(disk["A"], args'.image_files[i])
               /\ \A i \in 1..(k - 1) :
                      args'.image_files[i] \in DOMAIN disk["A"].images
                          => FileAt(disk'["A"].images, RenamedTo(args', i))
                                 = Some(disk["A"].images[args'.image_files[i]])
               /\ result'.renamed_images = k - 1
       /\ (/\ last' = "fix_images"
           /\ ~result'.error
           /\ args'.cancel_at \in DOMAIN args'.image_files)
          => LET k == args'.cancel_at
                 out == args'.output_folder
             IN  /\ \A i \in k..Len(args'.image_files) :
                        /\ RecordedFor(disk'[out], args'.image_files[i]).image
                               = RecordedFor(disk[out], args'.image_files[i]).image
                        /\ RecordedFor(disk'[out], args'.image_files[i]).txt
                               = RecordedFor(disk[out], args'.image_files[i]).txt
                 /\ result'.processed + result'.skipped <= k - 1
                 /\ Range(result'.invalid)
                        \subseteq {args'.image_files[i] : i \in 1..(k - 1)}]_vars


\* the records migrate_from_text_descriptions has applied tags to: the
\* description is not blank and the image's tag list is the parsed description
Migrated(k) ==
    /\ Strip(images_data[k].description) # <<>>
    /\ images_data[k].filename \in DOMAIN image_tags'
    /\ image_tags'[images_data[k].filename] = parse_tags_from_text(images_data[k].description)

\* C21: migrate_from_text_descriptions gives every record with a non-blank
\* description the tags parsed from it, returns the number of records whose
\* tag list it replaced, and leaves the tags of the records with a blank
\* description as they were.
C21_MigrateCountsReplaced ==
    [][last' = "migrate_from_text_descriptions"
          => /\ \A k \in DOMAIN images_data :
                    IF Strip(images_data[k].description) # <<>> THEN Migrated(k)
                    ELSE StoredTags(image_tags', images_data[k].filename)
                             = StoredTags(image_tags, images_data[k].filename)
             /\ result'.returned = Cardinality({k \in DOMAIN images_data : Migrated(k)})]_vars


CurGroups == Store(groups, image_to_group)

\* the list l without its entries that are in S
FilterOut(l, S) == SelectSeq(l, LAMBDA x : x \notin S)

\* C22: after create_group(name, F) the new group's member list is F, every
\* filename of F maps to the new group, no other group lists a filename of F
\* and the other groups keep their remaining members.
C22_CreateGroupOwnsMembers ==
    [][\A n \in GroupNames, F \in FnLists :
        (/\ last' = "create_group"
         /\ Store(groups', image_to_group') = CreateGroupSt(CurGroups, next_gid + 1, n, F))
        => LET g == next_gid + 1
           IN  /\ g \in DOMAIN groups'
               /\ groups'[g].image_filenames = F
               /\ \A f \in Range(F) : f \in DOMAIN image_to_group' /\ image_to_group'[f] = g
               /\ DOMAIN groups' \ {g} = DOMAIN groups
               /\ \A h \in DOMAIN groups :
                      /\ Range(groups'[h].image_filenames) \cap Range(F) = {}
                      /\ groups'[h].image_filenames
                             = FilterOut(groups[h].image_filenames, Range(F))]_vars

\* C23: delete_group(g) for an existing g removes g and the image_to_group
\* entry of each of its members and leaves every other group and every other
\* entry as it was; for an unknown g it returns False and changes nothing.
C23_DeleteGroupDetaches ==
    [][\A g \in GroupIds :
        (last' = "delete_group" /\ Store(groups', image_to_group') = DeleteGroupSt(CurGroups, g)
         /\ result'.returned = (g \in DOMAIN groups))
        => IF g \in DOMAIN groups
           THEN /\ result'.returned
                /\ DOMAIN groups' = DOMAIN groups \ {g}
                /\ \A h \in DOMAIN groups' : groups'[h] = groups[h]
                /\ DOMAIN image_to_group'
                       = DOMAIN image_to_group \ Range(groups[g].image_filenames)
                /\ \A f \in DOMAIN image_to_group' : image_to_group'[f] = image_to_group[f]
           ELSE /\ ~result'.returned
                /\ groups' = groups
                /\ image_to_group' = image_to_group]_vars

\* a group with two members was deleted next to a group that stays
C23_Witness ==
    /\ last = "delete_group"
    /\ result.returned
    /\ \E h \in DOMAIN groups : groups[h].image_filenames # <<>>
    /\ \E f \in FileNames : f \notin DOMAIN image_to_group
    /\ \E f \in FileNames : f \in DOMAIN image_to_group

\* C24: after GroupManager.remove_image(f) no group lists f, f has no
\* image_to_group entry and no group is empty.
C24_RemoveImageDetaches ==
    [][\A f \in FileNames :
        (/\ last' = "GroupManager.remove_image"
         /\ Store(groups', image_to_group') = RemoveImageSt(CurGroups, f))
        => /\ \A g \in DOMAIN groups' : f \notin Range(groups'[g].image_filenames)
           /\ f \notin DOMAIN image_to_group'
           /\ \A g \in DOMAIN groups' : groups'[g].image_filenames # <<>>]_vars


\* the filename lists get_display_order is asked about
DisplayLists == GroupOpsLists \cup {<<<<"a", ".jpg">>, <<"b", ".jpg">>>>}

\* the entries the display order is to hold for the groups hs, in this order
RECURSIVE ExpectedBlocks(_, _)
ExpectedBlocks(hs, all) ==
    IF hs = <<>> THEN <<>>
    ELSE LET members == SelectSeq(groups[Head(hs)].image_filenames,
                                  LAMBDA f : \E i \in DOMAIN all : all[i] = f)
         IN  <<[type |-> "group", group_id |-> Head(hs), filename |-> <<>>,
                is_group_member |-> FALSE]>>
             \o (IF groups[Head(hs)].expanded
                 THEN [k \in DOMAIN members |->
                          [type |-> "image", group_id |-> 0, filename |-> members[k],
                           is_group_member |-> TRUE]]
                 ELSE <<>>)
             \o ExpectedBlocks(Tail(hs), all)

\* C25: get_display_order(all) is, for the groups in a case-insensitive
\* alphabetical order of their names, one header entry each followed, if the
\* group is expanded, by its members that are in all, in member-list order and
\* flagged as group members; then every filename of all without an
\* image_to_group entry, in the order of all, flagged as not a group member;
\* with a group in the store the first entry is a header.
C25_DisplayOrder ==
    \A all \in DisplayLists :
        LET order == get_display_order(all)
            loose == SelectSeq(all, LAMBDA f : f \notin DOMAIN image_to_group)
        IN  /\ \E hs \in Orderings(DOMAIN groups) :
                   /\ \A i, j \in DOMAIN hs :
                          i < j => ~StrLess(LowerStr(groups[hs[j]].name),
                                            LowerStr(groups[hs[i]].name))
                   /\ order = ExpectedBlocks(hs, all)
                              \o [k \in DOMAIN loose |->
                                     [type |-> "image", group_id |-> 0, filename |-> loose[k],
                                      is_group_member |-> FALSE]]
            /\ DOMAIN groups # {} => order[1].type = "group"

\* two groups whose names sort differently with and without case, the second
\* of the display collapsed, and an image outside the groups
C25_Witness ==
    \E g, h \in DOMAIN groups :
        /\ groups[g].name = <<"B">>
        /\ groups[h].name = <<"a">>
        /\ g < h
        /\ groups[g].image_filenames # <<>>
        /\ ~groups[g].expanded
        /\ groups[h].image_filenames # <<>>
        /\ get_display_order(<<<<"b", ".jpg">>, <<"a", ".jpg">>>>)[1].group_id = h
        /\ \E f \in FileNames : f \notin DOMAIN image_to_group

\* the store is inconsistent: an entry names a group that does not exist, or a
\* group lists a member that image_to_group does not map to it
Dangling == \E f \in DOMAIN image_to_group : image_to_group[f] \notin DOMAIN groups
Unmirrored ==
    \E g \in DOMAIN groups : \E i \in DOMAIN groups[g].image_filenames :
        LET f == groups[g].image_filenames[i]
        IN  f \notin DOMAIN image_to_group \/ image_to_group[f] # g

\* C26: validate_consistency returns a non-empty list exactly when the store
\* is inconsistent, and changes neither groups nor image_to_group.
C26_ValidateReports ==
    [][last' = "validate_consistency"
          => /\ (result'.issues # {}) <=> (Dangling \/ Unmirrored)
             /\ groups' = groups
             /\ image_to_group' = image_to_group]_vars

\* a validation that found the entry of a group that no longer exists
C26_Witness ==
    /\ last = "validate_consistency"
    /\ result.issues # {}
    /\ Dangling
    /\ ~Unmirrored

\* the variant image files the last create_duplicates saved
GeneratedVariants ==
    {args.written[i].name :
        i \in {k \in DOMAIN args.written : args.written[k].name # args.written[k].of}}

\* C27: the JSON that create_duplicates writes has an entry under a variant's
\* filename exactly when the run saved that variant file, and every such
\* entry has the description the JSON that was read gives the original.
C27_JsonListsGeneratedVariants ==
    (last = "create_duplicates" /\ ~result.error /\ args.json # None) =>
        LET read == args.json[1].read
            json == args.json[1].written.data
            ops == TransformOps(args.transformations)
        IN  \A f \in BulkImages : \A k \in DOMAIN ops :
                LET variant == VariantName(f, ops[k])
                    entries == {i \in DOMAIN json : json[i].fileName = variant}
                IN  /\ (entries # {}) <=> (variant \in GeneratedVariants)
                    /\ \A i \in entries :
                           /\ read.kind = "list"
                           /\ \E j \in DOMAIN read.data :
                                  /\ read.data[j].fileName = f
                                  /\ read.data[j].description = json[i].description

\* the suffixes the requested transforms give, in the order _flipHor,
\* _rotLeft, _rotRight, _flipVert, or _dup alone when nothing is requested
RequestedSuffixes(transformations) ==
    LET requested ==
            (IF "flip" \in transformations THEN <<"_flipHor">> ELSE <<>>)
            \o (IF "rot90l" \in transformations THEN <<"_rotLeft">> ELSE <<>>)
            \o (IF "rot90r" \in transformations THEN <<"_rotRight">> ELSE <<>>)
            \o (IF "rot180" \in transformations THEN <<"_flipVert">> ELSE <<>>)
    IN  IF requested = <<>> THEN <<"_dup">> ELSE requested

\* the image files to write for f: a copy of the original when the folders
\* differ, then one {basename}{suffix}{ext} per requested transform
ExpectedFiles(f) ==
    LET suffixes == RequestedSuffixes(args.transformations)
    IN  (IF args.input_folder # args.output_folder THEN <<f>> ELSE <<>>)
        \o [k \in DOMAIN suffixes |-> StemOf(f) \o <<suffixes[k]>> \o ExtOf(f)]

\* the names of the image files the last create_duplicates saved for f, in
\* the order it saved them
WrittenFor(f) ==
    LET saved == SelectSeq(args.written, LAMBDA w : w.of = f)
    IN  [k \in DOMAIN saved |-> saved[k].name]

\* the last operation was a create_duplicates that ran and collected no error
DuplicatedWithoutErrors ==
    /\ last = "create_duplicates"
    /\ ~result.error
    /\ result.errors = <<>>

Reached(i) == args.cancel_at = 0 \/ i < args.cancel_at

NothingToLoad(d) ==
    \/ d.kind = "missing"
    \/ d.kind = "file"
    \/ \A f \in ListDir(d) : LowerStr(ExtOf(f)) # <<".jpg">>

\* C29: load_images_from_folder fails when the folder does not exist, is not
\* a directory or holds no supported image file, and a load that fails leaves
\* images_data and current_folder as they were.
C29_FailedLoadKeepsCatalog ==
    [][last' = "load_images_from_folder"
          => /\ NothingToLoad(disk[args'.folder_path]) => ~result'.success
             /\ ~result'.success => /\ images_data' = images_data
                                    /\ current_folder' = current_folder]_vars

\* a load of a directory without images failed while another folder is loaded
C29_Witness ==
    /\ last = "load_images_from_folder"
    /\ ~result.success
    /\ disk[args.folder_path].kind = "dir"
    /\ images_data # <<>>
    /\ current_folder # None
    /\ current_folder[1] # args.folder_path

\* what remove_image has to keep of a record
ContentOf(record) ==
    [filename |-> record.filename, path |-> record.path, description |-> record.description]

\* C30: remove_image(i) with 0 <= i < N returns True and removes record i
\* alone: the total goes down by one and the other records keep their
\* contents and their order; with i < 0 or i >= N it returns False and the
\* catalog is unchanged.
C30_RemoveImageAtIndex ==
    [][last' = "remove_image"
          => LET i == args'.index
                 N == Len(images_data)
             IN  IF 0 <= i /\ i < N
                 THEN /\ result'.returned
                      /\ TotalImages(images_data') = TotalImages(images_data) - 1
                      /\ \A k \in 1..(N - 1) :
                             ContentOf(images_data'[k]) =
                                 ContentOf(images_data[IF k <= i THEN k ELSE k + 1])
                 ELSE /\ ~result'.returned
                      /\ images_data' = images_data]_vars

\* a remove_image with a negative index on a loaded catalog, refused
C30_Witness ==
    /\ last = "remove_image"
    /\ args.index < 0
    /\ ~result.returned
    /\ Len(images_data) >= 2

\* the texts the callers of update_description pass
UpdateTexts == DescTexts \cup MigrateTexts

\* C31: update_description(index, text) with an index in range stores text
\* stripped of its surrounding whitespace as the description of that record
\* and changes no other record; with an index out of range it changes
\* nothing. (Every step of update_description is the step of some call of
\* that kind.)
C31_UpdateStoresTrimmed ==
    [][last' = "update_description"
          => \E index \in -1..Len(images_data), text \in UpdateTexts :
                 images_data' =
                     IF 0 <= index /\ index < Len(images_data)
                     THEN [images_data EXCEPT ![index + 1].description = Strip(text)]
                     ELSE images_data]_vars

\* C32: after TagManager.rename_image(old, new) the stored tags of new are
\* the tags old had before the call, also when old and new are the same name.
C32_RenameKeepsTags ==
    [][last' = "TagManager.rename_image"
          => StoredTags(image_tags', args'.new_filename)
                 = StoredTags(image_tags, args'.old_filename)]_vars

\* C33: when a tag has been removed from an image, the auto-save of the
\* handler has run and the folder is opened again, the tag list of the image
\* after opening does not contain the tag.
C33_RemovedTagStaysRemoved ==
    [][(/\ last = "on_tag_removed_from_image"
        /\ last' = "select_folder"
        /\ current_folder' = current_folder)
          => args.tag \notin Range(StoredTags(image_tags', args.filename))]_vars

\* the files of a name -> content mapping that are not among the names given
\* are still there with their content
KeptOutside(before, after, names) ==
    \A n \in (DOMAIN before) \ names :
        n \in DOMAIN after /\ after[n] = before[n]

\* C34: a mass rename that passes the pre-flight leaves every image that is
\* not in the batch and every .txt file that is not the sidecar of an image of
\* the batch in place with its content.
C34_RenameSparesOtherFiles ==
    [][(last' = "mass_rename_images" /\ ~result'.error)
          => LET batch == Range(args'.image_files)
             IN  /\ KeptOutside(disk["A"].images, disk'["A"].images, batch)
                 /\ KeptOutside(disk["A"].txt, disk'["A"].txt,
                                {TxtNameOf(f) : f \in batch})]_vars

\* the number of image entries of a display order that show filename f
TimesShown(order, f) ==
    Cardinality({k \in DOMAIN order : order[k].type = "image" /\ order[k].filename = f})

\* f is listed by a group that is collapsed
InCollapsedGroup(f) ==
    \E g \in DOMAIN groups : ~groups[g].expanded /\ f \in Range(groups[g].image_filenames)

\* C35: in every group store the operations reach, get_display_order(all) for
\* a list all without repeats shows each filename of all at most once, exactly
\* once when every group is expanded, and leaves a filename out only if a
\* collapsed group lists it.
C35_EachImageShownOnce ==
    \A all \in {l \in DisplayLists : NoRepeats(l)} :
        LET order == get_display_order(all)
        IN  \A f \in Range(all) :
                /\ TimesShown(order, f) <= 1
                /\ (\A g \in DOMAIN groups : groups[g].expanded) => TimesShown(order, f) = 1
                /\ TimesShown(order, f) = 0 => InCollapsedGroup(f)

\* two lists hold the same tags the same number of times
SameMultiset(l, m) ==
    \A x \in Range(l) \cup Range(m) : Count(l, x) = Count(m, x)

\* C36: scramble_tags only reorders. For every image it processes (a loaded
\* image that shows more than one tag) the tags shown, and the tags stored,
\* are the same multiset before and after, and with preserve_first the first
\* tag shown is the same before and after.
C36_ScrambleOnlyReorders ==
    [][last' = "scramble_tags"
          => \A k \in DOMAIN images_data :
                 LET f == images_data[k].filename
                     before == get_tags_for_image(f)
                     after == GetTagsSt(CurTags', f)
                 IN  Len(before) > 1
                       => /\ SameMultiset(before, after)
                          /\ SameMultiset(StoredTags(image_tags, f), StoredTags(image_tags', f))
                          /\ args'.preserve_first => after[1] = before[1]]_vars

\* the description the descriptions JSON of directory d has for filename f:
\* none, or the one of its last entry for f
DescriptionInJson(d, f) ==
    IF d.desc_json.kind # "list" THEN None
    ELSE LET entries == {i \in DOMAIN d.desc_json.data : d.desc_json.data[i].fileName = f}
         IN  IF entries = {} THEN None
             ELSE Some(d.desc_json.data[CHOOSE i \in entries :
                                            \A j \in entries : j <= i].description)

\* C37: after a load every record's description is the entry the descriptions
\* JSON of the folder has for its filename, else the stripped content of its
\* .txt sidecar, else the empty string, with or without a tags.json or a
\* groups.json in the folder.
C37_DescriptionPrecedence ==
    [][(last' = "load_images_from_folder" /\ result'.success)
          => \A k \in DOMAIN images_data' :
                 LET d == disk[args'.folder_path]
                     f == images_data'[k].filename
                 IN  images_data'[k].description =
                         IF DescriptionInJson(d, f) # None THEN DescriptionInJson(d, f)[1]
                         ELSE IF TxtNameOf(f) \in DOMAIN d.txt THEN Strip(d.txt[TxtNameOf(f)])
                         ELSE <<>>]_vars

====
